---- MODULE Spec2Model ----
(***************************************************************************)
(* Beacon-chain numeric analytics scripts (epoch_converter, analyze_missed, *)
(* format_rewards, calc_apr, format_queues, format_network and the copies  *)
(* of wei_to_eth) as a state machine: each action is one call              *)
(* of a function of the scripts on inputs drawn from bounded sets; the      *)
(* state records the function called, its arguments and what it returned   *)
(* (a value or the exception it raised).  A run of a script makes one call *)
(* and ends, as each script's main does for one command line.              *)
(*                                                                         *)
(* Python int values of the time domain are TLA+ integers.  Python float   *)
(* values are exact numbers (n/d) * 10^e, so that the base-unit scale      *)
(* 10^18 is representable; rounding of IEEE doubles is not modelled.       *)
(***************************************************************************)
EXTENDS Integers, Sequences, FiniteSets, TLC

VARIABLES fn, args, ret

vars == <<fn, args, ret>>

(***************************************************************************)
(* Bounds of the model.                                                    *)
(***************************************************************************)
MaxEpoch == 40
MaxNegEpoch == 3
MaxTsOffset == 800
MaxSlot == 100
MaxNegSlot == 3
MaxRewardMilli == 4
MaxValidators == 3
MaxPeriod == 8
MaxAmountMilli == 3
MaxWeiMilli == 2
MaxChurnMultiple == 5
MaxQueue == 8
MaxRateOffset == 1
MaxStrLen == 3
MaxMantissa == 2
MaxBatch == 3
MaxRangeStart == 1
MaxRangeEnd == 5

(***************************************************************************)
(* Exact arithmetic for Python's float operators.                          *)
(***************************************************************************)
Abs(x) == IF x < 0 THEN -x ELSE x

Min(x, y) == IF x <= y THEN x ELSE y

Max(x, y) == IF x >= y THEN x ELSE y

RECURSIVE GCD(_, _)
GCD(x, y) == IF y = 0 THEN x ELSE GCD(y, x % y)

RECURSIVE Pow10(_)
Pow10(k) == IF k = 0 THEN 1 ELSE 10 * Pow10(k - 1)

RECURSIVE Strip(_, _, _)
Strip(n, d, e) ==
    IF n % 10 = 0 THEN Strip(n \div 10, d, e + 1)
    ELSE IF d % 10 = 0 THEN Strip(n, d \div 10, e - 1)
    ELSE [n |-> n, d |-> d, e |-> e]

\* The number (n/d) * 10^e in reduced form, d > 0.
Norm(n, d, e) ==
    IF n = 0 THEN [n |-> 0, d |-> 1, e |-> 0]
    ELSE LET g == GCD(Abs(n), d) IN Strip(n \div g, d \div g, e)

Q(i) == Norm(i, 1, 0)

\* The decimal literal m * 10^e (0.001 is QDec(1, -3), 1e18 is QDec(1, 18)).
QDec(m, e) == Norm(m, 1, e)

QIsZero(a) == a.n = 0

QNeg(a) == [n |-> -a.n, d |-> a.d, e |-> a.e]

QAdd(a, b) ==
    IF a.n = 0 THEN b
    ELSE IF b.n = 0 THEN a
    ELSE LET m == Min(a.e, b.e)
         IN Norm(a.n * Pow10(a.e - m) * b.d + b.n * Pow10(b.e - m) * a.d,
                 a.d * b.d, m)

QSub(a, b) == QAdd(a, QNeg(b))

QMul(a, b) ==
    LET g1 == GCD(Abs(a.n), b.d)
        g2 == GCD(Abs(b.n), a.d)
    IN IF a.n = 0 \/ b.n = 0 THEN Q(0)
       ELSE Norm((a.n \div g1) * (b.n \div g2),
                 (a.d \div g2) * (b.d \div g1), a.e + b.e)

\* a / b for b # 0 (the callers guard b = 0 as the code does).
QDiv(a, b) ==
    QMul(a, [n |-> (IF b.n < 0 THEN -b.d ELSE b.d), d |-> Abs(b.n), e |-> -b.e])

\* x * 10^g > r for integers x >= 0, r >= -1, g >= 0, without forming 10^g.
RECURSIVE GtPow(_, _, _)
GtPow(x, g, r) ==
    IF g = 0 THEN x > r
    ELSE IF r <= 0 THEN x > 0 \/ r < 0
    ELSE GtPow(x, g - 1, r \div 10)

\* a < b for a, b > 0.
PosLt(a, b) ==
    LET l == a.n * b.d
        r == b.n * a.d
    IN IF a.e >= b.e THEN ~GtPow(l, a.e - b.e, r - 1)
       ELSE GtPow(r, b.e - a.e, l)

QLt(a, b) ==
    IF a.n <= 0 /\ b.n > 0 THEN TRUE
    ELSE IF a.n < 0 /\ b.n = 0 THEN TRUE
    ELSE IF a.n >= 0 /\ b.n <= 0 THEN FALSE
    ELSE IF a.n > 0 THEN PosLt(a, b)
    ELSE PosLt(QNeg(b), QNeg(a))

QGt(a, b) == QLt(b, a)

QEq(a, b) == ~QLt(a, b) /\ ~QLt(b, a)

QGe(a, b) == ~QLt(a, b)

(***************************************************************************)
(* What a call returns: a value, or the exception it raised.               *)
(***************************************************************************)
Ok(v) == [ok |-> TRUE, val |-> v]

Raise(x) == [ok |-> FALSE, err |-> x]

(***************************************************************************)
(* epoch_converter.py                                                      *)
(***************************************************************************)
GENESIS_TIMESTAMP == 1606824023
SECONDS_PER_SLOT == 12
SLOTS_PER_EPOCH == 32
SECONDS_PER_EPOCH == SECONDS_PER_SLOT * SLOTS_PER_EPOCH

\* The epoch, slot and timestamp of the module's usage examples.
ExampleEpoch == 347566
ExampleSlot == 11122112
ExampleTimestamp == 1740289367

\* Python's // on ints: the floor of the quotient, for a positive divisor.
FloorDiv(a, b) == a \div b

epoch_to_timestamp_dropped_genesis(epoch) == epoch * SECONDS_PER_EPOCH

epoch_to_timestamp_slot_scale(epoch) == GENESIS_TIMESTAMP + (epoch * SECONDS_PER_SLOT)

epoch_to_timestamp(epoch) == GENESIS_TIMESTAMP + (epoch * SECONDS_PER_EPOCH)

timestamp_to_epoch_unclamped(ts) == FloorDiv(ts - GENESIS_TIMESTAMP, SECONDS_PER_EPOCH)

timestamp_to_epoch(ts) == Max(0, FloorDiv(ts - GENESIS_TIMESTAMP, SECONDS_PER_EPOCH))

slot_to_epoch_rounded_up(slot) == FloorDiv(slot + SLOTS_PER_EPOCH - 1, SLOTS_PER_EPOCH)

slot_to_epoch(slot) == FloorDiv(slot, SLOTS_PER_EPOCH)

epoch_to_slot_range_exclusive_end(epoch) ==
    LET start == epoch * SLOTS_PER_EPOCH
    IN <<start, start + SLOTS_PER_EPOCH>>

epoch_to_slot_range(epoch) ==
    LET start == epoch * SLOTS_PER_EPOCH
        end == start + SLOTS_PER_EPOCH - 1
    IN <<start, end>>

\* Inputs of the time domain: argparse's type=int takes any integer.
Epochs == (-MaxNegEpoch .. MaxEpoch) \cup {ExampleEpoch}

Timestamps ==
    {GENESIS_TIMESTAMP + o : o \in -MaxTsOffset .. MaxTsOffset}
        \cup {0, -1, ExampleTimestamp}
        \cup {epoch_to_timestamp(e) : e \in 0 .. MaxEpoch}

Slots == (-MaxNegSlot .. MaxSlot) \cup {ExampleSlot}

Init ==
    /\ fn = "none"
    /\ args = <<>>
    /\ ret = Ok(0)

EpochToTimestamp ==
    \E epoch \in Epochs :
        /\ fn = "none"
        /\ fn' = "epoch_to_timestamp"
        /\ args' = <<epoch>>
        /\ ret' = Ok(epoch_to_timestamp(epoch))

TimestampToEpoch ==
    \E ts \in Timestamps :
        /\ fn = "none"
        /\ fn' = "timestamp_to_epoch"
        /\ args' = <<ts>>
        /\ ret' = Ok(timestamp_to_epoch(ts))

SlotToEpoch ==
    \E slot \in Slots :
        /\ fn = "none"
        /\ fn' = "slot_to_epoch"
        /\ args' = <<slot>>
        /\ ret' = Ok(slot_to_epoch(slot))

EpochToSlotRange ==
    \E epoch \in Epochs :
        /\ fn = "none"
        /\ fn' = "epoch_to_slot_range"
        /\ args' = <<epoch>>
        /\ ret' = Ok(epoch_to_slot_range(epoch))

(***************************************************************************)
(* Python's true division: a zero divisor raises ZeroDivisionError.        *)
(***************************************************************************)
PyDiv(a, b) == IF QIsZero(b) THEN Raise("ZeroDivisionError") ELSE Ok(QDiv(a, b))

(***************************************************************************)
(* calc_apr.py                                                             *)
(***************************************************************************)
EPOCHS_PER_YEAR == 82125
EPOCHS_PER_DAY == 225
DefaultStake == 32

calc_apr_unguarded_periods(rewards_eth, balance_eth, epochs) ==
    IF QIsZero(balance_eth) THEN Ok(Q(0))
    ELSE LET period_rate == PyDiv(rewards_eth, balance_eth)
             per_year == PyDiv(Q(EPOCHS_PER_YEAR), epochs)
         IN IF ~period_rate.ok THEN period_rate
            ELSE IF ~per_year.ok THEN per_year
            ELSE Ok(QMul(QMul(period_rate.val, per_year.val), Q(100)))

calc_apr_no_percent(rewards_eth, balance_eth, epochs) ==
    IF QIsZero(balance_eth) \/ QIsZero(epochs) THEN Ok(Q(0))
    ELSE Ok(QMul(QDiv(rewards_eth, balance_eth), QDiv(Q(EPOCHS_PER_YEAR), epochs)))

calc_apr_compounded(rewards_eth, balance_eth, epochs) ==
    IF QIsZero(balance_eth) \/ QIsZero(epochs) THEN Ok(Q(0))
    ELSE LET rate == QDiv(rewards_eth, balance_eth)
             growth == QAdd(Q(1), rate)
         IN Ok(QMul(QMul(QMul(rate, growth), QDiv(Q(EPOCHS_PER_YEAR), epochs)), Q(100)))

calc_apr(rewards_eth, balance_eth, epochs) ==
    IF QIsZero(balance_eth) \/ QIsZero(epochs) THEN Ok(Q(0))
    ELSE LET period_rate == PyDiv(rewards_eth, balance_eth)
             per_year == PyDiv(Q(EPOCHS_PER_YEAR), epochs)
         IN IF ~period_rate.ok THEN period_rate
            ELSE IF ~per_year.ok THEN per_year
            ELSE Ok(QMul(QMul(period_rate.val, per_year.val), Q(100)))

\* Net rewards in thousandths of an ETH, losses included.
AprRewards == {QDec(k, -3) : k \in -MaxRewardMilli .. MaxRewardMilli}

\* num_validators * args.stake, for --stake 32 (the default), 0.5 and 0.
AprStakes ==
    {QMul(Q(v), s) : v \in 0 .. MaxValidators, s \in {Q(DefaultStake), QDec(5, -1), Q(0)}}

AprPeriods == {Q(p) : p \in (0 .. MaxPeriod) \cup {EPOCHS_PER_DAY}}

CalcApr ==
    \E rewards_eth \in AprRewards, balance_eth \in AprStakes, epochs \in AprPeriods :
        /\ fn = "none"
        /\ fn' = "calc_apr"
        /\ args' = <<rewards_eth, balance_eth, epochs>>
        /\ ret' = calc_apr(rewards_eth, balance_eth, epochs)

(***************************************************************************)
(* JSON values of a decoded record: a string (a sequence of characters),   *)
(* a native number, or an object.  A record is a function from the paths   *)
(* present in it to their values.                                          *)
(***************************************************************************)
JStr(chars) == [t |-> "str", s |-> chars]

JNum(q) == [t |-> "num", v |-> q]

JObj == [t |-> "obj"]

DigitChars == <<"0", "1", "2", "3", "4", "5", "6", "7", "8", "9">>

Digits == {DigitChars[i] : i \in 1 .. 10}

DigitVal == [c \in Digits |-> (CHOOSE i \in 1 .. 10 : DigitChars[i] = c) - 1]

IsDigit(c) == c \in Digits

RECURSIVE LStrip(_)
LStrip(cs) == IF cs # <<>> /\ Head(cs) = " " THEN LStrip(Tail(cs)) ELSE cs

RECURSIVE RStrip(_)
RStrip(cs) ==
    IF cs # <<>> /\ cs[Len(cs)] = " " THEN RStrip(SubSeq(cs, 1, Len(cs) - 1)) ELSE cs

\* Digits with single underscores between them, as int() accepts.
RECURSIVE IsDigitRun(_, _, _)
IsDigitRun(cs, i, afterDigit) ==
    IF i > Len(cs) THEN afterDigit
    ELSE IF IsDigit(cs[i]) THEN IsDigitRun(cs, i + 1, TRUE)
    ELSE IF cs[i] = "_" /\ afterDigit THEN IsDigitRun(cs, i + 1, FALSE)
    ELSE FALSE

\* The value of the digits from position i on, the digits before it having
\* the value m * 10^z (m without trailing zeros).
RECURSIVE DigitRunValue(_, _, _, _)
DigitRunValue(cs, i, m, z) ==
    IF i > Len(cs) THEN [n |-> m, d |-> 1, e |-> z]
    ELSE IF cs[i] = "_" THEN DigitRunValue(cs, i + 1, m, z)
    ELSE IF cs[i] = "0" THEN DigitRunValue(cs, i + 1, m, IF m = 0 THEN 0 ELSE z + 1)
    ELSE DigitRunValue(cs, i + 1, m * Pow10(z + 1) + DigitVal[cs[i]], 0)

\* int(x) for a string: surrounding blanks dropped, an optional sign, then
\* decimal digits; anything else raises ValueError.
IntOfStr(chars) ==
    LET cs == RStrip(LStrip(chars))
        signed == cs # <<>> /\ cs[1] \in {"-", "+"}
        first == IF signed THEN 2 ELSE 1
    IN IF ~IsDigitRun(cs, first, FALSE) THEN Raise("ValueError")
       ELSE IF signed /\ cs[1] = "-" THEN Ok(QNeg(DigitRunValue(cs, first, 0, 0)))
       ELSE Ok(DigitRunValue(cs, first, 0, 0))

\* int(x) for a native number: the integer part, rounded toward zero.
TruncQ(q) ==
    IF q.e >= 0 /\ q.d = 1 THEN q
    ELSE LET num == Abs(q.n) * (IF q.e > 0 THEN Pow10(q.e) ELSE 1)
             den == q.d * (IF q.e < 0 THEN Pow10(-q.e) ELSE 1)
             mag == num \div den
         IN Q(IF q.n < 0 THEN -mag ELSE mag)

PyInt(x) == IF x.t = "str" THEN IntOfStr(x.s) ELSE Ok(TruncQ(x.v))

WEI_PER_ETH == QDec(1, 18)

\* analyze_missed.py and format_rewards.py: int(wei_str) / 1e18.
wei_to_eth(wei_str) ==
    LET i == PyInt(wei_str)
    IN IF ~i.ok THEN i ELSE PyDiv(i.val, WEI_PER_ETH)

(***************************************************************************)
(* analyze_missed.py: pct; format_rewards.py: calc_efficiency              *)
(***************************************************************************)
pct_no_zero_guard(part, total) ==
    LET q == PyDiv(part, total)
    IN IF ~q.ok THEN q ELSE Ok(QMul(q.val, Q(100)))

pct(part, total) ==
    IF QIsZero(total) THEN Ok(Q(0))
    ELSE LET q == PyDiv(part, total)
         IN IF ~q.ok THEN q ELSE Ok(QMul(q.val, Q(100)))

calc_efficiency(reward, penalty, missed) ==
    LET total_possible == QAdd(QAdd(reward, penalty), missed)
    IN IF QIsZero(total_possible) THEN Ok(Q(100))
       ELSE LET q == PyDiv(reward, total_possible)
            IN IF ~q.ok THEN q ELSE Ok(QMul(q.val, Q(100)))

\* Amounts in thousandths of an ETH.
Amounts == {QDec(k, -3) : k \in 0 .. MaxAmountMilli}

Pct ==
    \E part \in Amounts, total \in Amounts :
        /\ fn = "none"
        /\ fn' = "pct"
        /\ args' = <<part, total>>
        /\ ret' = pct(part, total)

CalcEfficiency ==
    \E reward \in Amounts, penalty \in Amounts, missed \in Amounts :
        /\ fn = "none"
        /\ fn' = "calc_efficiency"
        /\ args' = <<reward, penalty, missed>>
        /\ ret' = calc_efficiency(reward, penalty, missed)

(***************************************************************************)
(* analyze_missed.py: analyze_entry                                        *)
(***************************************************************************)
Has(entry, path) == path \in DOMAIN entry

\* entry[...][key]: KeyError when the key is absent.
GetItem(entry, path) ==
    IF Has(entry, path) THEN Ok(entry[path]) ELSE Raise("KeyError")

\* wei_to_eth(entry[...][key])
WeiItem(entry, path) ==
    LET x == GetItem(entry, path)
    IN IF ~x.ok THEN x ELSE wei_to_eth(x.val)

\* wei_to_eth(entry[...].get(key, "0")): the object is subscripted, the key
\* defaults to the string "0".
WeiGet(entry, parent, key) ==
    LET o == GetItem(entry, parent)
        path == Append(parent, key)
    IN IF ~o.ok THEN o
       ELSE wei_to_eth(IF Has(entry, path) THEN entry[path] ELSE JStr(<<"0">>))

\* The first exception of a sequence of evaluations, in evaluation order.
FirstError(steps) ==
    steps[CHOOSE i \in 1 .. Len(steps) :
              ~steps[i].ok /\ \A j \in 1 .. (i - 1) : steps[j].ok]

AllOk(steps) == \A i \in 1 .. Len(steps) : steps[i].ok

total_possible_without_penalty(total_reward, total_missed, total_penalty) ==
    QAdd(total_reward, total_missed)

total_possible_of(total_reward, total_missed, total_penalty) ==
    QAdd(QAdd(total_reward, total_missed), total_penalty)

analyze_entry(entry) ==
    LET validator == GetItem(entry, <<"validator">>)
        idx == GetItem(entry, <<"validator", "index">>)
        total_reward == WeiItem(entry, <<"total_reward">>)
        total_missed == WeiItem(entry, <<"total_missed">>)
        total_penalty == WeiItem(entry, <<"total_penalty">>)
        att == GetItem(entry, <<"attestation">>)
        m_head == WeiGet(entry, <<"attestation", "head">>, "missed_reward")
        m_source == WeiGet(entry, <<"attestation", "source">>, "missed_reward")
        m_target == WeiGet(entry, <<"attestation", "target">>, "missed_reward")
        m_sync == WeiGet(entry, <<"sync_committee">>, "missed_reward")
        m_proposal_cl == WeiGet(entry, <<"proposal">>, "missed_cl_reward")
        m_proposal_el == WeiGet(entry, <<"proposal">>, "missed_el_reward")
        p_head == WeiGet(entry, <<"attestation", "head">>, "penalty")
        p_source == WeiGet(entry, <<"attestation", "source">>, "penalty")
        p_target == WeiGet(entry, <<"attestation", "target">>, "penalty")
        p_sync == WeiGet(entry, <<"sync_committee">>, "penalty")
        p_leak == WeiGet(entry, <<"attestation">>, "inactivity_leak_penalty")
        steps == <<validator, idx, total_reward, total_missed, total_penalty, att,
                   m_head, m_source, m_target, m_sync, m_proposal_cl, m_proposal_el,
                   p_head, p_source, p_target, p_sync, p_leak>>
    IN IF ~AllOk(steps) THEN FirstError(steps)
       ELSE LET total_possible ==
                    total_possible_of(total_reward.val, total_missed.val,
                                      total_penalty.val)
                capture_rate == pct(total_reward.val, total_possible)
            IN IF ~capture_rate.ok THEN capture_rate
               ELSE Ok([index |-> idx.val,
                        total_reward |-> total_reward.val,
                        total_missed |-> total_missed.val,
                        total_penalty |-> total_penalty.val,
                        total_possible |-> total_possible,
                        capture_rate |-> capture_rate.val,
                        missed |-> [head |-> m_head.val,
                                    source |-> m_source.val,
                                    target |-> m_target.val,
                                    sync |-> m_sync.val,
                                    proposal_cl |-> m_proposal_cl.val,
                                    proposal_el |-> m_proposal_el.val],
                        penalties |-> [head |-> p_head.val,
                                       source |-> p_source.val,
                                       target |-> p_target.val,
                                       sync |-> p_sync.val,
                                       inactivity_leak |-> p_leak.val]])

(***************************************************************************)
(* Records of the rewards-list response given to analyze_entry.            *)
(***************************************************************************)
ObjPaths ==
    {<<"validator">>, <<"attestation">>, <<"attestation", "head">>,
     <<"attestation", "source">>, <<"attestation", "target">>,
     <<"sync_committee">>, <<"proposal">>}

TotalPaths == {<<"total_reward">>, <<"total_missed">>, <<"total_penalty">>}

SubPaths ==
    {<<"attestation", v, k>> : v \in {"head", "source", "target"},
                               k \in {"reward", "missed_reward", "penalty"}}
        \cup {<<"attestation", "total">>, <<"attestation", "inactivity_leak_penalty">>}
        \cup {<<"sync_committee", k>> : k \in {"reward", "missed_reward", "penalty"}}
        \cup {<<"proposal", k>> :
                 k \in {"total", "execution_layer_reward",
                        "attestation_inclusion_reward", "missed_cl_reward",
                        "missed_el_reward"}}

AllPaths == ObjPaths \cup TotalPaths \cup SubPaths \cup {<<"validator", "index">>}

IsPrefix(p, q) == Len(p) <= Len(q) /\ SubSeq(q, 1, Len(p)) = p

RECURSIVE IntChars(_)
IntChars(k) ==
    IF k < 10 THEN <<DigitChars[k + 1]>>
    ELSE Append(IntChars(k \div 10), DigitChars[(k % 10) + 1])

Zeros(k) == [i \in 1 .. k |-> "0"]

\* The decimal string of k * 10^15 wei (k thousandths of an ETH).
WeiStr(k) == IF k = 0 THEN <<"0">> ELSE IntChars(k) \o Zeros(15)

\* Amounts as the API gives them (decimal strings of wei), the amount of
\* 0.032 ETH, a string that is no integer, and a native number.
WeiValues ==
    {JStr(WeiStr(k)) : k \in 0 .. MaxWeiMilli}
        \cup {JStr(WeiStr(32)), JStr(<<"0", ".", "5">>), JNum(QDec(1, 15))}

SubValues == {JStr(<<"0">>), JStr(WeiStr(1))}

\* A record with the given totals, every sub-amount sub, and the paths
\* under absent left out.
EntryOf(tr, tm, tp, sub, absent) ==
    [p \in {q \in AllPaths : \A a \in absent : ~IsPrefix(a, q)} |->
        IF p \in ObjPaths THEN JObj
        ELSE IF p = <<"validator", "index">> THEN JNum(Q(7))
        ELSE IF p = <<"total_reward">> THEN tr
        ELSE IF p = <<"total_missed">> THEN tm
        ELSE IF p = <<"total_penalty">> THEN tp
        ELSE sub]

AbsentChoices == {{}} \cup {{p} : p \in AllPaths}

AnalyzeEntry ==
    \E tr \in WeiValues, tm \in WeiValues, tp \in WeiValues,
       sub \in SubValues, absent \in AbsentChoices :
        LET entry == EntryOf(tr, tm, tp, sub, absent)
        IN /\ fn = "none"
           /\ fn' = "analyze_entry"
           /\ args' = <<entry>>
           /\ ret' = analyze_entry(entry)

(***************************************************************************)
(* The copies of wei_to_eth.  analyze_missed.py's is wei_to_eth above.      *)
(***************************************************************************)
wei_to_eth_zero_on_error(wei_str) ==
    LET i == PyInt(wei_str)
    IN IF ~i.ok THEN Ok(Q(0)) ELSE PyDiv(i.val, WEI_PER_ETH)

\* format_rewards.py
wei_to_eth_format_rewards(wei_str) ==
    LET i == PyInt(wei_str)
    IN IF ~i.ok THEN i ELSE PyDiv(i.val, WEI_PER_ETH)

\* format_tax_export.py
wei_to_eth_tax_export(wei_str) ==
    LET i == PyInt(wei_str)
    IN IF ~i.ok THEN i ELSE PyDiv(i.val, WEI_PER_ETH)

\* format_balances.py
wei_to_eth_balances(wei_str) ==
    LET i == PyInt(wei_str)
    IN IF ~i.ok THEN i ELSE PyDiv(i.val, WEI_PER_ETH)

\* format_validators.py
wei_to_eth_validators(wei_str) ==
    LET i == PyInt(wei_str)
    IN IF ~i.ok THEN i ELSE PyDiv(i.val, WEI_PER_ETH)

\* calc_apr.py: a string is parsed and divided; a native number is divided
\* only when it is above 1e15.
wei_to_eth_calc_apr(val) ==
    IF val.t = "str"
    THEN LET i == IntOfStr(val.s)
         IN IF ~i.ok THEN i ELSE PyDiv(i.val, WEI_PER_ETH)
    ELSE IF QGt(val.v, QDec(1, 15)) THEN PyDiv(val.v, WEI_PER_ETH)
    ELSE Ok(val.v)

\* format_network.py
wei_to_eth_network(val) ==
    IF val.t = "str"
    THEN LET i == IntOfStr(val.s)
         IN IF ~i.ok THEN i ELSE PyDiv(i.val, WEI_PER_ETH)
    ELSE IF QGt(val.v, QDec(1, 15)) THEN PyDiv(val.v, WEI_PER_ETH)
    ELSE Ok(val.v)

\* format_aggregate.py: the native number is tested for first.
wei_to_eth_aggregate(wei_str) ==
    IF wei_str.t = "num"
    THEN IF QGt(wei_str.v, QDec(1, 15)) THEN PyDiv(wei_str.v, WEI_PER_ETH)
         ELSE Ok(wei_str.v)
    ELSE LET i == IntOfStr(wei_str.s)
         IN IF ~i.ok THEN i ELSE PyDiv(i.val, WEI_PER_ETH)

\* Strings over the characters int() tells apart, up to a length, and some
\* longer ones: an amount of wei, a fraction, an exponent form, a word.
UnitChars == {"0", "1", "_", "-", "+", " ", "."}

UnitStrings ==
    UNION {[1 .. n -> UnitChars] : n \in 0 .. MaxStrLen}
        \cup {WeiStr(1), <<"0", ".", "5">>, <<"1", "e", "1", "8">>,
              <<"a", "b", "c">>, <<"1", "_", "0", "0", "0">>}

\* Native numbers: small ones, and ones about 1e15 and 1e18.
UnitNumbers ==
    {QDec(m, e) : m \in (-MaxMantissa) .. MaxMantissa, e \in {0, 14, 15, 18}}
        \cup {QDec(999, 12), QDec(1001, 12), QDec(5, -1), QDec(32, 18)}

UnitInputs == {JStr(cs) : cs \in UnitStrings} \cup {JNum(q) : q \in UnitNumbers}

WeiToEthAnalyzeMissed ==
    \E x \in UnitInputs :
        /\ fn = "none"
        /\ fn' = "analyze_missed.wei_to_eth"
        /\ args' = <<x>>
        /\ ret' = wei_to_eth(x)

WeiToEthFormatRewards ==
    \E x \in UnitInputs :
        /\ fn = "none"
        /\ fn' = "format_rewards.wei_to_eth"
        /\ args' = <<x>>
        /\ ret' = wei_to_eth_format_rewards(x)

WeiToEthTaxExport ==
    \E x \in UnitInputs :
        /\ fn = "none"
        /\ fn' = "format_tax_export.wei_to_eth"
        /\ args' = <<x>>
        /\ ret' = wei_to_eth_tax_export(x)

WeiToEthBalances ==
    \E x \in UnitInputs :
        /\ fn = "none"
        /\ fn' = "format_balances.wei_to_eth"
        /\ args' = <<x>>
        /\ ret' = wei_to_eth_balances(x)

WeiToEthValidators ==
    \E x \in UnitInputs :
        /\ fn = "none"
        /\ fn' = "format_validators.wei_to_eth"
        /\ args' = <<x>>
        /\ ret' = wei_to_eth_validators(x)

WeiToEthCalcApr ==
    \E x \in UnitInputs :
        /\ fn = "none"
        /\ fn' = "calc_apr.wei_to_eth"
        /\ args' = <<x>>
        /\ ret' = wei_to_eth_calc_apr(x)

WeiToEthNetwork ==
    \E x \in UnitInputs :
        /\ fn = "none"
        /\ fn' = "format_network.wei_to_eth"
        /\ args' = <<x>>
        /\ ret' = wei_to_eth_network(x)

WeiToEthAggregate ==
    \E x \in UnitInputs :
        /\ fn = "none"
        /\ fn' = "format_aggregate.wei_to_eth"
        /\ args' = <<x>>
        /\ ret' = wei_to_eth_aggregate(x)

(***************************************************************************)
(* format_rewards.py: format_reward_entry, and the step main takes for one  *)
(* record in format_rewards.py (--cl-only, --el-only), calc_apr.py and      *)
(* format_tax_export.py.  What is printed for a record is the record of    *)
(* the amounts and the validator index shown; the key, finality and date   *)
(* texts are left out.                                                     *)
(***************************************************************************)
format_reward_entry(entry) ==
    LET W(path) ==
            LET x == GetItem(entry, path)
            IN IF ~x.ok THEN x ELSE wei_to_eth_format_rewards(x.val)
        G(parent, key) ==
            LET o == GetItem(entry, parent)
                path == Append(parent, key)
            IN IF ~o.ok THEN o
               ELSE wei_to_eth_format_rewards(IF Has(entry, path) THEN entry[path]
                           ELSE JStr(<<"0">>))
        validator == GetItem(entry, <<"validator">>)
        idx == GetItem(entry, <<"validator", "index">>)
        total_reward == W(<<"total_reward">>)
        total_penalty == W(<<"total_penalty">>)
        total_missed == W(<<"total_missed">>)
        att == GetItem(entry, <<"attestation">>)
        att_total == GetItem(entry, <<"attestation", "total">>)
        att_total_int == IF ~att_total.ok THEN att_total
                         ELSE PyInt(att_total.val)
        att_reward == IF ~att_total_int.ok THEN att_total_int
                      ELSE IF QGt(att_total_int.val, Q(0))
                           THEN wei_to_eth_format_rewards(att_total.val)
                      ELSE Ok(Q(0))
        att_head == W(<<"attestation", "head", "reward">>)
        att_source == W(<<"attestation", "source", "reward">>)
        att_target == W(<<"attestation", "target", "reward">>)
        sync == GetItem(entry, <<"sync_committee">>)
        sync_reward == W(<<"sync_committee", "reward">>)
        sync_penalty == W(<<"sync_committee", "penalty">>)
        prop == GetItem(entry, <<"proposal">>)
        prop_total == W(<<"proposal", "total">>)
        prop_el == G(<<"proposal">>, "execution_layer_reward")
        prop_att_incl == G(<<"proposal">>, "attestation_inclusion_reward")
        steps == <<validator, idx, total_reward, total_penalty, total_missed,
                   att, att_reward, att_head, att_source, att_target, sync,
                   sync_reward, sync_penalty, prop, prop_total, prop_el,
                   prop_att_incl>>
    IN IF ~AllOk(steps) THEN FirstError(steps)
       ELSE LET efficiency == calc_efficiency(total_reward.val,
                                              total_penalty.val,
                                              total_missed.val)
            IN IF ~efficiency.ok THEN efficiency
               ELSE Ok([index |-> idx.val,
                        total_reward |-> total_reward.val,
                        total_penalty |-> total_penalty.val,
                        total_missed |-> total_missed.val,
                        efficiency |-> efficiency.val,
                        att_reward |-> att_reward.val,
                        att_head |-> att_head.val,
                        att_source |-> att_source.val,
                        att_target |-> att_target.val,
                        sync_reward |-> sync_reward.val,
                        sync_penalty |-> sync_penalty.val,
                        prop_total |-> prop_total.val,
                        prop_el |-> prop_el.val,
                        prop_att_incl |-> prop_att_incl.val])

proposal_cl_is_total(proposal_total, el_reward) == proposal_total

\* The consensus-layer part of a proposal: the total less the
\* execution-layer reward.
proposal_cl_of(proposal_total, el_reward) == QSub(proposal_total, el_reward)

\* format_rewards.py main, one record under --cl-only or --el-only.
format_rewards_components(entry, cl_only) ==
    LET W(path) ==
            LET x == GetItem(entry, path)
            IN IF ~x.ok THEN x ELSE wei_to_eth_format_rewards(x.val)
        G(parent, key) ==
            LET o == GetItem(entry, parent)
                path == Append(parent, key)
            IN IF ~o.ok THEN o
               ELSE wei_to_eth_format_rewards(IF Has(entry, path) THEN entry[path]
                           ELSE JStr(<<"0">>))
        att_total == W(<<"attestation", "total">>)
        sync_reward == W(<<"sync_committee", "reward">>)
        el_reward == G(<<"proposal">>, "execution_layer_reward")
        proposal_total == W(<<"proposal", "total">>)
        validator == GetItem(entry, <<"validator">>)
        idx == GetItem(entry, <<"validator", "index">>)
        steps == <<att_total, sync_reward, el_reward, proposal_total,
                   validator, idx>>
    IN IF ~AllOk(steps) THEN FirstError(steps)
       ELSE LET proposal_cl == proposal_cl_of(proposal_total.val, el_reward.val)
                cl_total == QAdd(QAdd(att_total.val, sync_reward.val),
                                 proposal_cl)
            IN Ok([index |-> idx.val,
                   att_total |-> att_total.val,
                   sync_reward |-> sync_reward.val,
                   el_reward |-> el_reward.val,
                   proposal_cl |-> proposal_cl,
                   cl_total |-> cl_total,
                   added |-> IF cl_only THEN cl_total ELSE el_reward.val])

\* calc_apr.py main, one record of the loop: the validator counted and the
\* amounts added to the totals.
calc_apr_entry(entry) ==
    LET W(path) ==
            LET x == GetItem(entry, path)
            IN IF ~x.ok THEN x ELSE wei_to_eth_calc_apr(x.val)
        G(parent, key) ==
            LET o == GetItem(entry, parent)
                path == Append(parent, key)
            IN IF ~o.ok THEN o
               ELSE wei_to_eth_calc_apr(IF Has(entry, path) THEN entry[path]
                           ELSE JStr(<<"0">>))
        idx == IF Has(entry, <<"validator", "index">>)
               THEN entry[<<"validator", "index">>] ELSE JNum(Q(0))
        total_reward == W(<<"total_reward">>)
        total_penalty == W(<<"total_penalty">>)
        att_reward == W(<<"attestation", "total">>)
        sync_reward == W(<<"sync_committee", "reward">>)
        el_reward == G(<<"proposal">>, "execution_layer_reward")
        proposal_total == W(<<"proposal", "total">>)
        steps == <<total_reward, total_penalty, att_reward, sync_reward,
                   el_reward, proposal_total>>
    IN IF ~AllOk(steps) THEN FirstError(steps)
       ELSE LET proposal_cl == proposal_cl_of(proposal_total.val, el_reward.val)
            IN Ok([index |-> idx,
                   total_reward |-> total_reward.val,
                   total_penalty |-> total_penalty.val,
                   el_reward |-> el_reward.val,
                   proposal_cl |-> proposal_cl,
                   cl |-> QAdd(QAdd(att_reward.val, sync_reward.val),
                               proposal_cl)])

\* format_tax_export.py main, one record of the loop: the validator and the
\* amount columns of its row.
tax_export_row(entry) ==
    LET W(path) ==
            LET x == GetItem(entry, path)
            IN IF ~x.ok THEN x ELSE wei_to_eth_tax_export(x.val)
        G(parent, key) ==
            LET o == GetItem(entry, parent)
                path == Append(parent, key)
            IN IF ~o.ok THEN o
               ELSE wei_to_eth_tax_export(IF Has(entry, path) THEN entry[path]
                           ELSE JStr(<<"0">>))
        validator == GetItem(entry, <<"validator">>)
        idx == GetItem(entry, <<"validator", "index">>)
        total_reward == W(<<"total_reward">>)
        total_penalty == W(<<"total_penalty">>)
        cl_reward == W(<<"attestation", "total">>)
        sync_reward == W(<<"sync_committee", "reward">>)
        el_reward == G(<<"proposal">>, "execution_layer_reward")
        proposal_total == W(<<"proposal", "total">>)
        steps == <<validator, idx, total_reward, total_penalty, cl_reward,
                   sync_reward, el_reward, proposal_total>>
    IN IF ~AllOk(steps) THEN FirstError(steps)
       ELSE Ok([validator_index |-> idx.val,
                total_reward_eth |-> total_reward.val,
                total_penalty_eth |-> total_penalty.val,
                net_reward_eth |-> QSub(total_reward.val, total_penalty.val),
                attestation_eth |-> cl_reward.val,
                sync_committee_eth |-> sync_reward.val,
                proposal_cl_eth |-> proposal_cl_of(proposal_total.val,
                                                   el_reward.val),
                proposal_el_eth |-> el_reward.val])

\* Proposal amounts: decimal strings of wei, a string that is no integer, and
\* a native number of wei.
ProposalValues ==
    {JStr(WeiStr(k)) : k \in 0 .. MaxWeiMilli}
        \cup {JStr(<<"0", ".", "5">>), JNum(QDec(2, 18))}

\* A record with the given proposal total and execution-layer reward.
ProposalEntryOf(total, el, absent) ==
    LET base == EntryOf(JStr(WeiStr(1)), JStr(<<"0">>), JStr(<<"0">>),
                        JStr(WeiStr(1)), absent)
    IN [p \in DOMAIN base |->
           IF p = <<"proposal", "total">> THEN total
           ELSE IF p = <<"proposal", "execution_layer_reward">> THEN el
           ELSE base[p]]

FormatRewardEntry ==
    \E tr \in WeiValues, tm \in SubValues, tp \in SubValues,
       sub \in SubValues, absent \in AbsentChoices :
        LET entry == EntryOf(tr, tm, tp, sub, absent)
        IN /\ fn = "none"
           /\ fn' = "format_reward_entry"
           /\ args' = <<entry>>
           /\ ret' = format_reward_entry(entry)

FormatRewardsComponents ==
    \E total \in ProposalValues, el \in ProposalValues,
       absent \in AbsentChoices, cl_only \in BOOLEAN :
        LET entry == ProposalEntryOf(total, el, absent)
        IN /\ fn = "none"
           /\ fn' = "format_rewards.main"
           /\ args' = <<entry, cl_only>>
           /\ ret' = format_rewards_components(entry, cl_only)

CalcAprEntry ==
    \E total \in ProposalValues, el \in ProposalValues,
       absent \in AbsentChoices :
        LET entry == ProposalEntryOf(total, el, absent)
        IN /\ fn = "none"
           /\ fn' = "calc_apr.main"
           /\ args' = <<entry>>
           /\ ret' = calc_apr_entry(entry)

TaxExportRow ==
    \E total \in ProposalValues, el \in ProposalValues,
       absent \in AbsentChoices :
        LET entry == ProposalEntryOf(total, el, absent)
        IN /\ fn = "none"
           /\ fn' = "format_tax_export.main"
           /\ args' = <<entry>>
           /\ ret' = tax_export_row(entry)

(***************************************************************************)
(* format_queues.py and format_network.py: the queue wait estimators.       *)
(* Counts and queue lengths are Python ints; a wait is a float.  The       *)
(* float infinity is the number with denominator 0.                        *)
(***************************************************************************)
QInf == [n |-> 1, d |-> 0, e |-> 0]

IsInf(a) == a.d = 0

wait_hours_of_slot_seconds(queue_length, churn_limit) ==
    LET wait_epochs == QDiv(Q(queue_length), Q(churn_limit))
    IN QDiv(QMul(wait_epochs, Q(SECONDS_PER_SLOT)), Q(60))

\* wait_epochs * 6.4 / 60 for wait_epochs = queue_length / churn_limit.
wait_hours_of(queue_length, churn_limit) ==
    LET wait_epochs == QDiv(Q(queue_length), Q(churn_limit))
    IN QDiv(QMul(wait_epochs, QDec(64, -1)), Q(60))

\* calc_wait from the statement after the churn limit's assignment on.
calc_wait_from(queue_length, churn_limit) ==
    IF churn_limit = 0 THEN <<Q(0), 0>>
    ELSE <<wait_hours_of(queue_length, churn_limit), churn_limit>>

calc_wait_without_minimum(queue_length, active_validators) ==
    calc_wait_from(queue_length, FloorDiv(active_validators, 65536))

calc_wait(queue_length, active_validators) ==
    calc_wait_from(queue_length, Max(4, FloorDiv(active_validators, 65536)))

\* estimate_queue_wait from the statement after the churn limit's
\* assignment on.
estimate_queue_wait_from(queue_length, churn_limit) ==
    IF churn_limit = 0 THEN <<QInf, churn_limit>>
    ELSE <<wait_hours_of(queue_length, churn_limit), churn_limit>>

estimate_queue_wait(queue_length, active_validators) ==
    estimate_queue_wait_from(queue_length,
                             Max(4, FloorDiv(active_validators, 65536)))

\* dict.get(key, default) and Python's `or` on ints.
Get(data, key, default) == IF key \in DOMAIN data THEN data[key] ELSE default

PyOr(a, b) == IF a # 0 THEN a ELSE b

ESTIMATED_ACTIVE == 970000

\* main of format_queues.py from the extraction of the queue data on: the
\* counts it resolves and what it prints for each queue and as advice.
format_queues_main(data) ==
    LET activation == PyOr(PyOr(PyOr(Get(data, "beaconchain_entering", 0),
                                     Get(data, "activation_queue", 0)),
                                Get(data, "entering", 0)),
                           Get(data, "entry_queue", 0))
        exit_q == PyOr(PyOr(Get(data, "beaconchain_exiting", 0),
                            Get(data, "exit_queue", 0)),
                       Get(data, "exiting", 0))
        withdrawal == PyOr(Get(data, "withdrawal_queue", 0),
                           Get(data, "withdrawals", 0))
        found == PyOr(PyOr(Get(data, "active_validators", 0),
                           Get(data, "validatorscount", 0)),
                      Get(data, "active", 0))
        active == IF found = 0 THEN ESTIMATED_ACTIVE ELSE found
        churn_limit == Max(4, FloorDiv(active, 65536))
        QueueLine(name, length) ==
            [name |-> name, pending |-> length,
             wait |-> IF length > 0 THEN <<calc_wait(length, active)[1]>>
                      ELSE <<>>]
    IN Ok([active |-> active,
           estimated |-> (found = 0),
           churn_limit |-> churn_limit,
           activations_per_day |-> churn_limit * EPOCHS_PER_DAY,
           queues |-> <<QueueLine("Activation", activation),
                        QueueLine("Exit", exit_q),
                        QueueLine("Withdrawal", withdrawal)>>,
           staking |-> IF activation > 0
                       THEN <<calc_wait(activation, active)[1]>> ELSE <<>>,
           exiting |-> IF exit_q > 1000 THEN "long"
                       ELSE IF exit_q > 0 THEN "short" ELSE "none",
           exiting_wait |-> IF exit_q > 0
                            THEN <<calc_wait(exit_q, active)[1]>> ELSE <<>>])

\* main of format_network.py: the validator counts it resolves and the queue
\* estimates it prints.
format_network_main(data) ==
    LET active == Get(data, "active_validators",
                      Get(data, "validatorscount", 0))
        entering == Get(data, "entering_validators",
                        Get(data, "beaconchain_entering", 0))
        exiting == Get(data, "exiting_validators",
                       Get(data, "beaconchain_exiting", 0))
    IN Ok([active |-> active,
           entering |-> entering,
           exiting |-> exiting,
           shows_queues |-> (entering # 0 \/ exiting # 0),
           estimates |->
               IF active # 0 /\ (entering # 0 \/ exiting # 0)
               THEN <<[churn_limit |-> Max(4, FloorDiv(active, 65536)),
                       activation_wait |->
                           IF entering # 0
                           THEN <<estimate_queue_wait(entering, active)[1]>>
                           ELSE <<>>,
                       exit_wait |->
                           IF exiting # 0
                           THEN <<estimate_queue_wait(exiting, active)[1]>>
                           ELSE <<>>]>>
               ELSE <<>>])

\* Active-validator counts around the multiples of 65536, and the estimate.
ActiveCounts ==
    {k * 65536 + o : k \in 0..MaxChurnMultiple, o \in {0, 1, 65535}}
        \cup {ESTIMATED_ACTIVE}

QueueLengths == (0..MaxQueue) \cup {1400}

\* A key of the summary record that is absent (<<>>) or carries a count.
Optional(S) == {<<>>} \cup {<<x>> : x \in S}

Field(key, o) == IF o = <<>> THEN [k \in {} |-> 0] ELSE (key :> o[1])

SummaryCounts == {0, MaxChurnMultiple * 65536, ESTIMATED_ACTIVE}

SummaryQueues == {0, MaxQueue, 1400}

SummaryOf(av, vc, ac, be, ev, bx) ==
    Field("active_validators", av) @@ Field("validatorscount", vc)
        @@ Field("active", ac) @@ Field("beaconchain_entering", be)
        @@ Field("entering_validators", ev)
        @@ Field("beaconchain_exiting", bx)

CalcWait ==
    \E q \in QueueLengths, a \in ActiveCounts :
        /\ fn = "none"
        /\ fn' = "calc_wait"
        /\ args' = <<q, a>>
        /\ ret' = Ok(calc_wait(q, a))

EstimateQueueWait ==
    \E q \in QueueLengths, a \in ActiveCounts :
        /\ fn = "none"
        /\ fn' = "estimate_queue_wait"
        /\ args' = <<q, a>>
        /\ ret' = Ok(estimate_queue_wait(q, a))

FormatQueuesMain ==
    \E av \in Optional(SummaryCounts), vc \in Optional(SummaryCounts),
       ac \in Optional(SummaryCounts), be \in Optional(SummaryQueues),
       ev \in Optional(SummaryQueues), bx \in Optional(SummaryQueues) :
        LET data == SummaryOf(av, vc, ac, be, ev, bx)
        IN /\ fn = "none"
           /\ fn' = "format_queues.main"
           /\ args' = <<data>>
           /\ ret' = format_queues_main(data)

FormatNetworkMain ==
    \E av \in Optional(SummaryCounts), vc \in Optional(SummaryCounts),
       ac \in Optional(SummaryCounts), be \in Optional(SummaryQueues),
       ev \in Optional(SummaryQueues), bx \in Optional(SummaryQueues) :
        LET data == SummaryOf(av, vc, ac, be, ev, bx)
        IN /\ fn = "none"
           /\ fn' = "format_network.main"
           /\ args' = <<data>>
           /\ ret' = format_network_main(data)

(***************************************************************************)
(* analyze_missed.py: diagnose.  An issue is its label and the numbers the  *)
(* label and the advice text show; the fixed advice texts are left out.    *)
(***************************************************************************)
Issue(label, shows) == [label |-> label, shows |-> shows]

band_label_exclusive(capture_rate) ==
    IF QGt(capture_rate, QDec(995, -1)) THEN "Exceptional performance"
    ELSE IF QGt(capture_rate, Q(99)) THEN "Good performance"
    ELSE IF QGt(capture_rate, Q(95)) THEN "Below target"
    ELSE "Poor performance"

\* The if / elif chain on the capture rate.
band_label(capture_rate) ==
    IF QGe(capture_rate, QDec(995, -1)) THEN "Exceptional performance"
    ELSE IF QGe(capture_rate, Q(99)) THEN "Good performance"
    ELSE IF QGe(capture_rate, Q(95)) THEN "Below target"
    ELSE "Poor performance"

\* The issues appended before the capture rate is looked at.
duty_issues(analysis) ==
    LET m == analysis.missed
        p == analysis.penalties
        When(cond, issue) == IF cond THEN <<issue>> ELSE <<>>
    IN When(QGt(m.head, Q(0)), Issue("Missed head votes", <<>>))
       \o When(QGt(m.source, Q(0)), Issue("Missed source votes", <<>>))
       \o When(QGt(m.target, Q(0)), Issue("Missed target votes", <<>>))
       \o When(QGt(m.sync, Q(0)),
               Issue("Missed sync committee duties", <<>>))
       \o When(QGt(m.proposal_cl, Q(0)) \/ QGt(m.proposal_el, Q(0)),
               Issue("Missed block proposal",
                     <<QAdd(m.proposal_cl, m.proposal_el)>>))
       \o When(QGt(p.inactivity_leak, Q(0)),
               Issue("INACTIVITY LEAK PENALTY", <<>>))

diagnose_band_first(analysis) ==
    <<Issue(band_label(analysis.capture_rate), <<analysis.capture_rate>>)>>
        \o duty_issues(analysis)

diagnose(analysis) ==
    duty_issues(analysis)
        \o <<Issue(band_label(analysis.capture_rate),
                   <<analysis.capture_rate>>)>>

\* Capture rates at and next to the band boundaries (in hundredths), and the
\* ends of the range.
CaptureRates ==
    {QDec(b + o, -2) : b \in {9500, 9900, 9950},
                       o \in (-MaxRateOffset)..MaxRateOffset}
        \cup {Q(0), Q(100)}

MissedAmounts == {Q(0), QDec(1, -3)}

AnalysisOf(mh, ms, mt, my, mc, me, leak, rate) ==
    [missed |-> [head |-> mh, source |-> ms, target |-> mt, sync |-> my,
                 proposal_cl |-> mc, proposal_el |-> me],
     penalties |-> [inactivity_leak |-> leak],
     capture_rate |-> rate]

Diagnose ==
    \E mh \in MissedAmounts, ms \in MissedAmounts, mt \in MissedAmounts,
       my \in MissedAmounts, mc \in MissedAmounts, me \in MissedAmounts,
       leak \in MissedAmounts, rate \in CaptureRates :
        LET analysis == AnalysisOf(mh, ms, mt, my, mc, me, leak, rate)
        IN /\ fn = "none"
           /\ fn' = "diagnose"
           /\ args' = <<analysis>>
           /\ ret' = Ok(diagnose(analysis))

(***************************************************************************)
(* The mains that take a batch of records: raw["data"] is a sequence of    *)
(* records.  A main that ends with an uncaught exception returns the       *)
(* exception together with the records it had reported before.             *)
(***************************************************************************)
Abort(err, printed) == [ok |-> FALSE, err |-> err, printed |-> printed]

\* A record of validator index with the given totals and every sub-amount
\* 0.001 ETH.
BatchRecord(index, tr, tm, tp, absent) ==
    LET base == EntryOf(tr, tm, tp, JStr(WeiStr(1)), absent)
    IN [p \in DOMAIN base |->
           IF p = <<"validator", "index">> THEN JNum(Q(index)) ELSE base[p]]

\* Records of two validators with and without missed amounts and penalties,
\* a record without its validator index, a record with a malformed total.
GoodRecords ==
    {BatchRecord(1, JStr(WeiStr(2)), JStr(WeiStr(1)), JStr(WeiStr(1)), {}),
     BatchRecord(2, JStr(WeiStr(2)), JStr(WeiStr(1)), JStr(WeiStr(1)), {}),
     BatchRecord(1, JStr(WeiStr(1)), JStr(<<"0">>), JStr(<<"0">>), {}),
     BatchRecord(2, JStr(WeiStr(1)), JStr(<<"0">>), JStr(WeiStr(1)), {})}

BadRecords ==
    {BatchRecord(1, JStr(WeiStr(2)), JStr(WeiStr(1)), JStr(WeiStr(1)),
                 {<<"validator", "index">>}),
     BatchRecord(2, JStr(<<"0", ".", "5">>), JStr(WeiStr(1)), JStr(WeiStr(1)),
                 {})}

BatchRecords == GoodRecords \cup BadRecords

Batches == UNION {[1 .. n -> BatchRecords] : n \in 0 .. MaxBatch}

\* analyze_missed.py main: the loop over the records from record i on, with
\* the sums and the reports so far.
RECURSIVE analyze_missed_loop(_, _, _)
analyze_missed_loop(entries, i, acc) ==
    IF i > Len(entries) THEN Ok(acc)
    ELSE LET Step(a) ==
                 IF ~a.ok THEN Abort(a.err, acc.printed)
                 ELSE analyze_missed_loop(entries, i + 1,
                          [total_earned |->
                               QAdd(acc.total_earned, a.val.total_reward),
                           total_missed |->
                               QAdd(acc.total_missed, a.val.total_missed),
                           all_missed |->
                               [key \in DOMAIN acc.all_missed |->
                                   QAdd(acc.all_missed[key], a.val.missed[key])],
                           printed |->
                               Append(acc.printed,
                                      [analysis |-> a.val,
                                       diagnostics |-> diagnose(a.val)])])
         IN Step(analyze_entry(entries[i]))

\* analyze_missed.py main: the per-record reports, and for more than one
\* record the aggregate, whose total_possible is total_earned + total_missed.
analyze_missed_main(entries) ==
    IF entries = <<>> THEN Ok([found |-> FALSE, printed |-> <<>>])
    ELSE LET Report(r) ==
                 IF ~r.ok THEN r
                 ELSE LET total_possible ==
                              QAdd(r.val.total_earned, r.val.total_missed)
                          rate == pct(r.val.total_earned, total_possible)
                      IN Ok([found |-> TRUE,
                             printed |-> r.val.printed,
                             aggregate |->
                                 IF Len(entries) > 1
                                 THEN <<[total_earned |-> r.val.total_earned,
                                         total_missed |-> r.val.total_missed,
                                         capture_rate |-> rate.val,
                                         missed_by_duty |->
                                             {key \in DOMAIN r.val.all_missed :
                                                 QGt(r.val.all_missed[key],
                                                     Q(0))}]>>
                                 ELSE <<>>])
         IN Report(analyze_missed_loop(entries, 1,
                [total_earned |-> Q(0), total_missed |-> Q(0),
                 all_missed |-> [key \in {"head", "source", "target", "sync",
                                          "proposal_cl", "proposal_el"} |->
                                    Q(0)],
                 printed |-> <<>>]))

AnalyzeMissedMain ==
    \E entries \in Batches :
        /\ fn = "none"
        /\ fn' = "analyze_missed.batch"
        /\ args' = <<entries>>
        /\ ret' = analyze_missed_main(entries)

\* format_rewards.py main: the loop from record i on.
RECURSIVE format_rewards_loop(_, _, _, _, _)
format_rewards_loop(entries, cl_only, el_only, i, acc) ==
    IF i > Len(entries) THEN Ok(acc)
    ELSE IF cl_only \/ el_only
    THEN LET Step(c) ==
                 IF ~c.ok THEN Abort(c.err, acc.printed)
                 ELSE format_rewards_loop(entries, cl_only, el_only, i + 1,
                          [total_reward_sum |->
                               QAdd(acc.total_reward_sum, c.val.added),
                           total_penalty_sum |-> acc.total_penalty_sum,
                           printed |-> Append(acc.printed, c.val)])
         IN Step(format_rewards_components(entries[i], cl_only))
    ELSE LET Step(f) ==
                 IF ~f.ok THEN Abort(f.err, acc.printed)
                 ELSE format_rewards_loop(entries, cl_only, el_only, i + 1,
                          [total_reward_sum |->
                               QAdd(acc.total_reward_sum, f.val.total_reward),
                           total_penalty_sum |->
                               QAdd(acc.total_penalty_sum, f.val.total_penalty),
                           printed |-> Append(acc.printed, f.val)])
         IN Step(format_reward_entry(entries[i]))

\* format_rewards.py main for an input without a range.
format_rewards_main(entries, cl_only, el_only) ==
    IF entries = <<>> THEN Ok([found |-> FALSE, printed |-> <<>>])
    ELSE LET Report(r) ==
                 IF ~r.ok THEN r
                 ELSE Ok([found |-> TRUE,
                          printed |-> r.val.printed,
                          aggregate |->
                              IF Len(entries) > 1
                              THEN <<[validators |-> Len(entries),
                                      total_rewards |-> r.val.total_reward_sum,
                                      penalty_and_net |->
                                          IF ~cl_only /\ ~el_only
                                          THEN <<r.val.total_penalty_sum,
                                                 QSub(r.val.total_reward_sum,
                                                      r.val.total_penalty_sum)>>
                                          ELSE <<>>]>>
                              ELSE <<>>])
         IN Report(format_rewards_loop(entries, cl_only, el_only, 1,
                [total_reward_sum |-> Q(0), total_penalty_sum |-> Q(0),
                 printed |-> <<>>]))

\* format_tax_export.py main: the rows built from record i on.  Nothing is
\* written before every row is built.
RECURSIVE tax_export_rows(_, _, _)
tax_export_rows(entries, i, rows) ==
    IF i > Len(entries) THEN Ok(rows)
    ELSE LET Step(r) ==
                 IF ~r.ok THEN Abort(r.err, <<>>)
                 ELSE tax_export_rows(entries, i + 1, Append(rows, r.val))
         IN Step(tax_export_row(entries[i]))

\* The summary by validator of the rows from row i on.
RECURSIVE tax_export_summary(_, _, _)
tax_export_summary(rows, i, by_validator) ==
    IF i > Len(rows) THEN by_validator
    ELSE LET r == rows[i]
             idx == r.validator_index
             old == IF idx \in DOMAIN by_validator THEN by_validator[idx]
                    ELSE [total |-> Q(0), penalty |-> Q(0), net |-> Q(0),
                          cl |-> Q(0), el |-> Q(0), count |-> 0]
             summary ==
                 [total |-> QAdd(old.total, r.total_reward_eth),
                  penalty |-> QAdd(old.penalty, r.total_penalty_eth),
                  net |-> QAdd(old.net, r.net_reward_eth),
                  cl |-> QAdd(old.cl,
                              QAdd(QAdd(r.attestation_eth, r.sync_committee_eth),
                                   r.proposal_cl_eth)),
                  el |-> QAdd(old.el, r.proposal_el_eth),
                  count |-> old.count + 1]
         IN tax_export_summary(rows, i + 1,
                [k \in DOMAIN by_validator \cup {idx} |->
                    IF k = idx THEN summary ELSE by_validator[k]])

\* sum(v["net"] for v in by_validator.values())
RECURSIVE SumNet(_, _)
SumNet(by_validator, keys) ==
    IF keys = {} THEN Q(0)
    ELSE LET k == CHOOSE x \in keys : TRUE
         IN QAdd(by_validator[k].net, SumNet(by_validator, keys \ {k}))

format_tax_export_main(entries) ==
    IF entries = <<>> THEN Ok([found |-> FALSE, printed |-> <<>>])
    ELSE LET Report(rows) ==
                 IF ~rows.ok THEN rows
                 ELSE LET by_validator ==
                              tax_export_summary(rows.val, 1, [k \in {} |-> 0])
                      IN Ok([found |-> TRUE,
                             printed |-> rows.val,
                             by_validator |-> by_validator,
                             grand_total |->
                                 SumNet(by_validator, DOMAIN by_validator)])
         IN Report(tax_export_rows(entries, 1, <<>>))

\* The loop with every record counted as a validator of its own.
RECURSIVE calc_apr_loop_counting_records(_, _, _)
calc_apr_loop_counting_records(entries, i, acc) ==
    IF i > Len(entries) THEN Ok(acc)
    ELSE LET Step(e) ==
                 IF ~e.ok THEN Abort(e.err, <<>>)
                 ELSE calc_apr_loop_counting_records(entries, i + 1,
                          [total_reward |->
                               QAdd(acc.total_reward, e.val.total_reward),
                           total_cl |-> QAdd(acc.total_cl, e.val.cl),
                           total_el |-> QAdd(acc.total_el, e.val.el_reward),
                           total_penalty |->
                               QAdd(acc.total_penalty, e.val.total_penalty),
                           validators |-> acc.validators \cup {<<i, e.val.index>>}])
         IN Step(calc_apr_entry(entries[i]))

\* calc_apr.py main: the loop from record i on.
RECURSIVE calc_apr_loop(_, _, _)
calc_apr_loop(entries, i, acc) ==
    IF i > Len(entries) THEN Ok(acc)
    ELSE LET Step(e) ==
                 IF ~e.ok THEN Abort(e.err, <<>>)
                 ELSE calc_apr_loop(entries, i + 1,
                          [total_reward |->
                               QAdd(acc.total_reward, e.val.total_reward),
                           total_cl |-> QAdd(acc.total_cl, e.val.cl),
                           total_el |-> QAdd(acc.total_el, e.val.el_reward),
                           total_penalty |->
                               QAdd(acc.total_penalty, e.val.total_penalty),
                           validators |-> acc.validators \cup {e.val.index}])
         IN Step(calc_apr_entry(entries[i]))

\* The length of the period in epochs: from the range when its start and its
\* end are both non-zero, else the number of records.  range is <<>> or
\* <<start, end>>; an absent start or end reads as 0.
num_epochs_of(range, entries) ==
    LET start_epoch == IF range = <<>> THEN 0 ELSE range[1]
        end_epoch == IF range = <<>> THEN 0 ELSE range[2]
    IN IF start_epoch # 0 /\ end_epoch # 0
       THEN Max(1, end_epoch - start_epoch + 1)
       ELSE Len(entries)

\* calc_apr.py main for a rewards response; the APY, which takes math.exp,
\* and the notes on the sample are left out.
calc_apr_main(entries, range, stake) ==
    IF entries = <<>> THEN Ok([found |-> FALSE])
    ELSE LET Report(r, num_epochs) ==
                 IF ~r.ok THEN r
                 ELSE LET net_reward ==
                              QSub(r.val.total_reward, r.val.total_penalty)
                          num_validators == Cardinality(r.val.validators)
                          assumed_balance == QMul(Q(num_validators), stake)
                          total_apr == calc_apr(net_reward, assumed_balance,
                                                Q(num_epochs))
                          cl_apr == calc_apr(r.val.total_cl, assumed_balance,
                                             Q(num_epochs))
                          el_apr == calc_apr(r.val.total_el, assumed_balance,
                                             Q(num_epochs))
                          period_days ==
                              QDiv(Q(num_epochs * SECONDS_PER_EPOCH), Q(86400))
                      IN IF ~total_apr.ok THEN total_apr
                         ELSE IF ~cl_apr.ok THEN cl_apr
                         ELSE IF ~el_apr.ok THEN el_apr
                         ELSE Ok([found |-> TRUE,
                                  num_epochs |-> num_epochs,
                                  num_validators |-> num_validators,
                                  assumed_balance |-> assumed_balance,
                                  total_reward |-> r.val.total_reward,
                                  total_penalty |-> r.val.total_penalty,
                                  net_reward |-> net_reward,
                                  total_cl |-> r.val.total_cl,
                                  total_el |-> r.val.total_el,
                                  total_apr |-> total_apr.val,
                                  cl_apr |-> cl_apr.val,
                                  el_apr |-> el_apr.val,
                                  period_days |-> period_days,
                                  daily_reward |->
                                      IF QGt(period_days, Q(0))
                                      THEN QDiv(net_reward, period_days)
                                      ELSE Q(0)])
         IN Report(calc_apr_loop(entries, 1,
                       [total_reward |-> Q(0), total_cl |-> Q(0),
                        total_el |-> Q(0), total_penalty |-> Q(0),
                        validators |-> {}]),
                   num_epochs_of(range, entries))

\* Records for calc_apr: two validators, a second record of the first, and a
\* record without its validator index.
AprRecords ==
    {BatchRecord(1, JStr(WeiStr(2)), JStr(<<"0">>), JStr(WeiStr(1)), {}),
     BatchRecord(1, JStr(WeiStr(1)), JStr(<<"0">>), JStr(<<"0">>), {}),
     BatchRecord(2, JStr(WeiStr(1)), JStr(<<"0">>), JStr(<<"0">>), {}),
     BatchRecord(2, JStr(WeiStr(1)), JStr(<<"0">>), JStr(<<"0">>),
                 {<<"validator", "index">>})}

AprBatches == UNION {[1 .. n -> AprRecords] : n \in 0 .. MaxBatch}

\* raw["range"]["epoch"]: absent, or a start and an end.
EpochRanges ==
    {<<>>} \cup {<<s, e>> : s \in (0 .. MaxRangeStart) \cup {MaxRangeEnd},
                            e \in {0, MaxRangeEnd - 1, MaxRangeEnd}}

\* --stake: the default 32, or 0.5.
Stakes == {Q(DefaultStake), QDec(5, -1)}

CalcAprMain ==
    \E entries \in AprBatches, range \in EpochRanges, stake \in Stakes :
        /\ fn = "none"
        /\ fn' = "calc_apr.batch"
        /\ args' = <<entries, range, stake>>
        /\ ret' = calc_apr_main(entries, range, stake)

(***************************************************************************)
(* format_balances.py main.  A snapshot is a record with the paths         *)
(* validator.index or validator_index, epoch and balance.  The effective   *)
(* balance and the change mark printed with each balance are left out.     *)
(***************************************************************************)
\* entry.get("validator", {}).get("index", entry.get("validator_index", "?"))
format_balances_index(entry) ==
    IF Has(entry, <<"validator", "index">>) THEN entry[<<"validator", "index">>]
    ELSE IF Has(entry, <<"validator_index">>) THEN entry[<<"validator_index">>]
    ELSE JStr(<<"?">>)

\* The keys of by_validator in the order they were inserted.
RECURSIVE balances_group_keys(_, _, _)
balances_group_keys(entries, i, keys) ==
    IF i > Len(entries) THEN keys
    ELSE LET idx == format_balances_index(entries[i])
         IN balances_group_keys(entries, i + 1,
                IF \E j \in DOMAIN keys : keys[j] = idx THEN keys
                ELSE Append(keys, idx))

\* e.get("epoch", 0)
EpochKey(e) == IF Has(e, <<"epoch">>) THEN e[<<"epoch">>].v ELSE Q(0)

\* list.sort(key=...): stable, ascending.
RECURSIVE SortByEpoch(_)
SortByEpoch(snaps) ==
    IF Len(snaps) <= 1 THEN snaps
    ELSE LET sorted == SortByEpoch(SubSeq(snaps, 1, Len(snaps) - 1))
             x == snaps[Len(snaps)]
             before == {j \in DOMAIN sorted :
                           ~QLt(EpochKey(x), EpochKey(sorted[j]))}
             k == Cardinality(before)
         IN SubSeq(sorted, 1, k) \o <<x>> \o SubSeq(sorted, k + 1, Len(sorted))

\* wei_to_eth(snap.get("balance", snap.get("current", "0"))) of each snapshot
\* from snapshot i on.
RECURSIVE balances_of(_, _)
balances_of(snaps, i) ==
    IF i > Len(snaps) THEN Ok(<<>>)
    ELSE LET b == wei_to_eth_balances(
                      IF Has(snaps[i], <<"balance">>) THEN snaps[i][<<"balance">>]
                      ELSE IF Has(snaps[i], <<"current">>)
                           THEN snaps[i][<<"current">>]
                      ELSE JStr(<<"0">>))
             rest == balances_of(snaps, i + 1)
         IN IF ~b.ok THEN b
            ELSE IF ~rest.ok THEN rest
            ELSE Ok(<<b.val>> \o rest.val)

QMin(a, b) == IF QLt(b, a) THEN b ELSE a

QMax(a, b) == IF QLt(a, b) THEN b ELSE a

RECURSIVE MinOf(_, _)
MinOf(xs, i) ==
    IF i = Len(xs) THEN xs[i] ELSE QMin(xs[i], MinOf(xs, i + 1))

RECURSIVE MaxOf(_, _)
MaxOf(xs, i) ==
    IF i = Len(xs) THEN xs[i] ELSE QMax(xs[i], MaxOf(xs, i + 1))

\* What is printed for one validator: its balances by epoch and, for two or
\* more, the trend.
balances_report(idx, snapshots) ==
    LET balances == balances_of(SortByEpoch(snapshots), 1)
    IN IF ~balances.ok THEN balances
       ELSE LET bs == balances.val
                diffs == [i \in 1 .. (Len(bs) - 1) |-> QSub(bs[i + 1], bs[i])]
            IN Ok([index |-> idx,
                   balances |-> bs,
                   trend |->
                       IF Len(bs) >= 2
                       THEN <<[net_change |-> QSub(bs[Len(bs)], bs[1]),
                               max_bal |-> MaxOf(bs, 1),
                               min_bal |-> MinOf(bs, 1),
                               max_drop |-> QMin(Q(0), MinOf(diffs, 1))]>>
                       ELSE <<>>])

\* The reports of the validators from key i on.
RECURSIVE balances_reports(_, _, _, _)
balances_reports(entries, keys, i, printed) ==
    IF i > Len(keys) THEN Ok([found |-> TRUE, printed |-> printed])
    ELSE LET OfKey(e) == format_balances_index(e) = keys[i]
             r == balances_report(keys[i], SelectSeq(entries, OfKey))
         IN IF ~r.ok THEN Abort(r.err, printed)
            ELSE balances_reports(entries, keys, i + 1, Append(printed, r.val))

format_balances_main(entries) ==
    IF entries = <<>> THEN Ok([found |-> FALSE, printed |-> <<>>])
    ELSE balances_reports(entries, balances_group_keys(entries, 1, <<>>), 1,
                          <<>>)

\* A snapshot of a validator at an epoch.  how tells where the validator
\* index is: nested, flat, or nowhere.
SnapshotOf(how, index, epoch, balance) ==
    (IF how = "nested"
     THEN (<<"validator">> :> JObj) @@ (<<"validator", "index">> :> JNum(Q(index)))
     ELSE IF how = "flat" THEN (<<"validator_index">> :> JNum(Q(index)))
     ELSE [k \in {} |-> 0])
        @@ (<<"epoch">> :> JNum(Q(epoch))) @@ (<<"balance">> :> balance)

\* Where the index of a snapshot is, and its value.
SnapshotOwners ==
    {<<"nested", 1>>, <<"nested", 2>>, <<"flat", 1>>, <<"none", 1>>}

\* Balances of 32 ETH at epoch 1 and of 31.98 ETH at epoch 2.
Snapshots ==
    {SnapshotOf(o[1], o[2], 1, JStr(WeiStr(32000))) : o \in SnapshotOwners}
        \cup {SnapshotOf(o[1], o[2], 2, JStr(WeiStr(31980))) :
                 o \in SnapshotOwners}

SnapshotBatches == UNION {[1 .. n -> Snapshots] : n \in 0 .. MaxBatch}

FormatBalancesMain ==
    \E entries \in SnapshotBatches :
        /\ fn = "none"
        /\ fn' = "format_balances.batch"
        /\ args' = <<entries>>
        /\ ret' = format_balances_main(entries)

FormatRewardsMain ==
    \E entries \in Batches, cl_only \in BOOLEAN, el_only \in BOOLEAN :
        /\ fn = "none"
        /\ fn' = "format_rewards.batch"
        /\ args' = <<entries, cl_only, el_only>>
        /\ ret' = format_rewards_main(entries, cl_only, el_only)

FormatTaxExportMain ==
    \E entries \in Batches :
        /\ fn = "none"
        /\ fn' = "format_tax_export.batch"
        /\ args' = <<entries>>
        /\ ret' = format_tax_export_main(entries)

\* epoch_converter.py: one conversion per command line.
NextEpochConverter ==
    \/ EpochToTimestamp
    \/ TimestampToEpoch
    \/ SlotToEpoch
    \/ EpochToSlotRange

\* calc_apr.py: the annualization of one period's totals.
NextCalcApr == CalcApr

\* format_queues.py and format_network.py: one wait estimate, or one summary
\* record through main.
NextQueues ==
    \/ CalcWait
    \/ EstimateQueueWait
    \/ FormatQueuesMain
    \/ FormatNetworkMain

\* Every script's wei_to_eth: one conversion.
NextUnits ==
    \/ WeiToEthAnalyzeMissed
    \/ WeiToEthFormatRewards
    \/ WeiToEthTaxExport
    \/ WeiToEthBalances
    \/ WeiToEthValidators
    \/ WeiToEthCalcApr
    \/ WeiToEthNetwork
    \/ WeiToEthAggregate

\* The reports of one record: format_rewards.py's full and component forms,
\* calc_apr.py's aggregation and format_tax_export.py's row.
NextReports ==
    \/ FormatRewardEntry
    \/ FormatRewardsComponents
    \/ CalcAprEntry
    \/ TaxExportRow

\* The mains over a batch of records.
NextBatch ==
    \/ AnalyzeMissedMain
    \/ FormatRewardsMain
    \/ FormatTaxExportMain

\* calc_apr.py main and format_balances.py main: the summaries by validator.
NextSummaries ==
    \/ CalcAprMain
    \/ FormatBalancesMain

\* analyze_missed.py: the diagnostics of one analysis.
NextDiagnose == Diagnose

\* analyze_missed.py and format_rewards.py: the decomposition of one record
\* and the capture-rate and efficiency computations.
NextRewards ==
    \/ Pct
    \/ CalcEfficiency
    \/ AnalyzeEntry

Next ==
    \/ NextEpochConverter
    \/ NextCalcApr
    \/ NextRewards
    \/ NextQueues
    \/ NextDiagnose
    \/ NextUnits
    \/ NextReports
    \/ NextBatch
    \/ NextSummaries

Spec == Init /\ [][Next]_vars

SpecEpochConverter == Init /\ [][NextEpochConverter]_vars

SpecCalcApr == Init /\ [][NextCalcApr]_vars

SpecRewards == Init /\ [][NextRewards]_vars

SpecQueues == Init /\ [][NextQueues]_vars

SpecDiagnose == Init /\ [][NextDiagnose]_vars

SpecUnits == Init /\ [][NextUnits]_vars

SpecReports == Init /\ [][NextReports]_vars

SpecBatch == Init /\ [][NextBatch]_vars

SpecSummaries == Init /\ [][NextSummaries]_vars

(***************************************************************************)
(* The time/epoch mapper's claims.                                         *)
(***************************************************************************)

\* C1: for every epoch e >= 0, timestamp_to_epoch(epoch_to_timestamp(e)) = e:
\* mapping the timestamp an epoch was converted to back gives that epoch.
C1_RoundTrip ==
    (fn = "epoch_to_timestamp" /\ args[1] >= 0)
        => (ret.ok /\ timestamp_to_epoch(ret.val) = args[1])

C1_Witness ==
    /\ fn = "epoch_to_timestamp"
    /\ args[1] > 0
    /\ timestamp_to_epoch(ret.val) = args[1]

\* C2: every timestamp before genesis maps to epoch 0, no timestamp maps to
\* a negative epoch, and the conversion raises nothing.
C2_PreGenesisSaturates ==
    fn = "timestamp_to_epoch"
        => /\ ret.ok
           /\ ret.val >= 0
           /\ (args[1] < GENESIS_TIMESTAMP => ret.val = 0)

C2_Witness ==
    /\ fn = "timestamp_to_epoch"
    /\ args[1] < GENESIS_TIMESTAMP - SECONDS_PER_EPOCH
    /\ ret.ok
    /\ ret.val = 0

\* C3: for every epoch e >= 0 the timestamp is exactly genesis + e * 384,
\* and every later epoch has a strictly later timestamp.
C3_AffineMonotonic ==
    (fn = "epoch_to_timestamp" /\ args[1] >= 0)
        => /\ ret.ok
           /\ ret.val = 1606824023 + args[1] * 384
           /\ \A e2 \in Epochs :
                  /\ e2 > args[1] => epoch_to_timestamp(e2) > ret.val
                  /\ (e2 >= 0 /\ e2 < args[1]) => epoch_to_timestamp(e2) < ret.val

C3_Witness ==
    /\ fn = "epoch_to_timestamp"
    /\ args[1] > 0
    /\ ret.val = 1606824023 + args[1] * 384
    /\ \E e2 \in Epochs : e2 >= 0 /\ e2 < args[1] /\ epoch_to_timestamp(e2) < ret.val

\* C4: for every slot s >= 0, slot_to_epoch(s) is the floor of s/32, and
\* the slot range of that epoch holds s and spans 32 slots (last - first = 31).
C4_SlotInItsEpochRange ==
    (fn = "slot_to_epoch" /\ args[1] >= 0)
        => /\ ret.ok
           /\ 32 * ret.val <= args[1]
           /\ args[1] < 32 * (ret.val + 1)
           /\ LET r == epoch_to_slot_range(ret.val)
              IN /\ r[1] <= args[1]
                 /\ args[1] <= r[2]
                 /\ r[2] - r[1] = 31

C4_Witness ==
    /\ fn = "slot_to_epoch"
    /\ args[1] > 32
    /\ args[1] % 32 = 31
    /\ epoch_to_slot_range(ret.val)[2] = args[1]

\* C5 as stated: epoch 347566 has timestamp 1739229287 and slot range
\* (11122112, 11122143).
C5_AsStated ==
    /\ (fn = "epoch_to_timestamp" /\ args[1] = 347566)
           => ret.val = 1739229287
    /\ (fn = "epoch_to_slot_range" /\ args[1] = 347566)
           => ret.val = <<11122112, 11122143>>

\* C5 amended: epoch 347566 has timestamp 1740289367, which is
\* 1606824023 + 347566 * 384, and slot range (11122112, 11122143).
C5_ScenarioA ==
    /\ (fn = "epoch_to_timestamp" /\ args[1] = 347566)
           => (ret.ok /\ ret.val = 1740289367 /\ ret.val = 1606824023 + 347566 * 384)
    /\ (fn = "epoch_to_slot_range" /\ args[1] = 347566)
           => (ret.ok /\ ret.val = <<11122112, 11122143>>)

C5_Witness ==
    /\ fn = "epoch_to_timestamp"
    /\ args[1] = 347566
    /\ ret.val = 1740289367

(***************************************************************************)
(* The reward decomposer's claims.                                         *)
(***************************************************************************)
QAbs(a) == IF a.n < 0 THEN QNeg(a) ELSE a

\* a and b differ by at most tol.
Within(a, b, tol) == ~QGt(QAbs(QSub(a, b)), tol)

\* earned / (earned + missed + penalty) * 100, or 0 for a zero denominator.
CaptureRateOf(earned, missed, penalty) ==
    LET den == QAdd(QAdd(earned, missed), penalty)
    IN IF QIsZero(den) THEN Q(0) ELSE QMul(QDiv(earned, den), Q(100))

\* C6: every capture-rate or efficiency computation returns
\* earned / (earned + missed + penalty) * 100 for a non-zero denominator and
\* 0 for a zero denominator, raising nothing: pct, analyze_entry's
\* capture_rate and calc_efficiency alike.
C6_CaptureRateZeroWhenNoDuties ==
    /\ fn = "pct"
           => /\ ret.ok
              /\ QEq(ret.val, IF QIsZero(args[2]) THEN Q(0)
                              ELSE QMul(QDiv(args[1], args[2]), Q(100)))
    /\ (fn = "analyze_entry" /\ ret.ok)
           => QEq(ret.val.capture_rate,
                  CaptureRateOf(ret.val.total_reward, ret.val.total_missed,
                                ret.val.total_penalty))
    /\ fn = "calc_efficiency"
           => /\ ret.ok
              /\ QEq(ret.val, CaptureRateOf(args[1], args[3], args[2]))

\* C6, the part the code satisfies: pct and analyze_entry's capture_rate.
C6_HoldsForPct ==
    /\ fn = "pct"
           => /\ ret.ok
              /\ QEq(ret.val, IF QIsZero(args[2]) THEN Q(0)
                              ELSE QMul(QDiv(args[1], args[2]), Q(100)))
    /\ (fn = "analyze_entry" /\ ret.ok)
           => QEq(ret.val.capture_rate,
                  CaptureRateOf(ret.val.total_reward, ret.val.total_missed,
                                ret.val.total_penalty))

\* C7: for every record analyze_entry accepts, the total_possible it
\* returns is, within one base unit (10^-18), the sum of the total_reward,
\* total_missed and total_penalty it returns: none of the three is left out.
C7_TotalsReconcile ==
    (fn = "analyze_entry" /\ ret.ok)
        => Within(ret.val.total_possible,
                  QAdd(QAdd(ret.val.total_reward, ret.val.total_missed),
                       ret.val.total_penalty),
                  QDec(1, -18))

C7_Witness ==
    /\ fn = "analyze_entry"
    /\ ret.ok
    /\ QGt(ret.val.total_reward, Q(0))
    /\ QGt(ret.val.total_missed, Q(0))
    /\ QGt(ret.val.total_penalty, Q(0))
    /\ QEq(ret.val.total_possible,
           QAdd(QAdd(ret.val.total_reward, ret.val.total_missed),
                ret.val.total_penalty))

(***************************************************************************)
(* The annualization engine's claims.                                      *)
(***************************************************************************)

\* C8: calc_apr returns 0 whenever the stake or the period is 0, whatever
\* the reward, and no call raises.
C8_ZeroStakeOrPeriodGivesZero ==
    fn = "calc_apr"
        => /\ ret.ok
           /\ (QIsZero(args[2]) \/ QIsZero(args[3])) => QIsZero(ret.val)

C8_Witness ==
    /\ fn = "calc_apr"
    /\ QLt(args[1], Q(0))
    /\ ~QIsZero(args[2])
    /\ QIsZero(args[3])
    /\ ret.ok
    /\ QIsZero(ret.val)

\* C9: for a non-zero stake and period, calc_apr is
\* (reward / stake) * (82125 / periods) * 100, so k times the reward gives
\* k times the rate, and k times the stake or the period gives 1/k of it.
C9_LinearExtrapolation ==
    (fn = "calc_apr" /\ ~QIsZero(args[2]) /\ ~QIsZero(args[3]))
        => /\ ret.ok
           /\ QEq(ret.val,
                  QMul(QMul(QDiv(args[1], args[2]), QDiv(Q(82125), args[3])),
                       Q(100)))
           /\ \A k \in 2 .. 3 :
                  /\ QEq(calc_apr(QMul(Q(k), args[1]), args[2], args[3]).val,
                         QMul(Q(k), ret.val))
                  /\ QEq(QMul(Q(k), calc_apr(args[1], QMul(Q(k), args[2]), args[3]).val),
                         ret.val)
                  /\ QEq(QMul(Q(k), calc_apr(args[1], args[2], QMul(Q(k), args[3])).val),
                         ret.val)

C9_Witness ==
    /\ fn = "calc_apr"
    /\ ~QIsZero(args[1])
    /\ ~QIsZero(args[2])
    /\ ~QIsZero(args[3])
    /\ ret.ok
    /\ ~QIsZero(ret.val)
    /\ QEq(calc_apr(QMul(Q(2), args[1]), args[2], args[3]).val, QMul(Q(2), ret.val))

\* The call of scenario C: calc_apr(0.001, 32, 225).
IsScenarioC ==
    /\ fn = "calc_apr"
    /\ QEq(args[1], QDec(1, -3))
    /\ QEq(args[2], Q(32))
    /\ QEq(args[3], Q(225))

\* C10 as stated: calc_apr(0.001, 32, 225) is approximately 11.40 (11.40
\* to two decimal places).
C10_AsStated ==
    IsScenarioC => (ret.ok /\ Within(ret.val, QDec(1140, -2), QDec(5, -3)))

\* C10 amended: calc_apr(0.001, 32, 225), which evaluates
\* (0.001/32) * (82125/225) * 100, is 1.140625: approximately 1.14.
C10_ScenarioC ==
    IsScenarioC
        => /\ ret.ok
           /\ QEq(ret.val, QDec(1140625, -6))
           /\ Within(ret.val, QDec(114, -2), QDec(5, -3))

C10_Witness ==
    /\ IsScenarioC
    /\ ret.ok
    /\ QEq(ret.val, QDec(1140625, -6))

(***************************************************************************)
(* The queue wait estimator's claims.                                      *)
(***************************************************************************)

\* max(4, floor(x / 65536)) stated without the division: 4 below four
\* multiples of 65536, otherwise the c with c * 65536 <= x < (c + 1) * 65536.
IsChurnLimit(c, x) ==
    IF x < 4 * 65536 THEN c = 4
    ELSE c * 65536 <= x /\ x < (c + 1) * 65536

\* C12: for every active-validator count x >= 0 the churn limit computed by
\* calc_wait, by estimate_queue_wait and by the main of format_queues and of
\* format_network is max(4, floor(x / 65536)), so it is at least 4 and no
\* estimator returns through its churn_limit == 0 branch (the only place where
\* the churn limit returned is 0).
C12_ChurnLimitAtLeastFour ==
    /\ (fn \in {"calc_wait", "estimate_queue_wait"} /\ args[2] >= 0)
          => (ret.ok /\ IsChurnLimit(ret.val[2], args[2]) /\ ret.val[2] >= 4)
    /\ fn = "format_queues.main"
          => (ret.ok /\ IsChurnLimit(ret.val.churn_limit, ret.val.active)
                     /\ ret.val.churn_limit >= 4)
    /\ fn = "format_network.main"
          => (ret.ok /\ \A i \in DOMAIN ret.val.estimates :
                  /\ IsChurnLimit(ret.val.estimates[i].churn_limit,
                                  ret.val.active)
                  /\ ret.val.estimates[i].churn_limit >= 4)

\* A count of exactly five multiples of 65536 is estimated with a churn limit
\* of 5.
C12_Witness ==
    /\ fn = "calc_wait"
    /\ args[2] = 5 * 65536
    /\ ret.val[2] = 5

\* C13: for every queue length q >= 0 and active count a >= 0 the wait
\* estimate in hours is (q / churnLimit(a)) * 384 / 3600; q = 0 gives a wait
\* of exactly 0; q = 1400 with a = 970000 gives a churn limit of 14 and a wait
\* of 100 epochs, 100 * 384 / 3600 hours (about 10.67).
C13_WaitHours ==
    (fn \in {"calc_wait", "estimate_queue_wait"}
        /\ args[1] >= 0 /\ args[2] >= 0)
        => /\ ret.ok
           /\ \E c \in 4..(4 + MaxChurnMultiple + ESTIMATED_ACTIVE \div 65536) :
                 /\ IsChurnLimit(c, args[2])
                 /\ QEq(QMul(ret.val[1], Q(3600 * c)),
                        Q(args[1] * SECONDS_PER_EPOCH))
           /\ (args[1] = 0 => QIsZero(ret.val[1]))
           /\ (args[1] = 1400 /\ args[2] = 970000)
                 => /\ ret.val[2] = 14
                    /\ QEq(ret.val[1], QDiv(Q(100 * 384), Q(3600)))
                    /\ QLt(QDec(1066, -2), ret.val[1])
                    /\ QLt(ret.val[1], QDec(1067, -2))

C13_Witness ==
    /\ fn = "calc_wait"
    /\ args = <<1400, 970000>>
    /\ ret.val[2] = 14
    /\ QEq(ret.val[1], QDiv(Q(32), Q(3)))

\* C14: in calc_wait and in estimate_queue_wait alike, the branch for a churn
\* limit of 0 returns the unbounded sentinel as the wait, not a finite number
\* such as 0.  The branch is what the estimator called does from the churn
\* limit's test on when the churn limit is 0.
C14_ZeroChurnReturnsUnbounded ==
    /\ fn = "calc_wait" => IsInf(calc_wait_from(args[1], 0)[1])
    /\ fn = "estimate_queue_wait"
          => IsInf(estimate_queue_wait_from(args[1], 0)[1])

\* The part of C14 that holds: estimate_queue_wait's branch returns infinity.
C14_HoldsForEstimateQueueWait ==
    fn = "estimate_queue_wait"
        => IsInf(estimate_queue_wait_from(args[1], 0)[1])

(***************************************************************************)
(* The diagnostic classifier's claims.                                     *)
(***************************************************************************)
BandLabels ==
    {"Poor performance", "Below target", "Good performance",
     "Exceptional performance"}

\* The band of a capture rate by its interval: [0, 95) Poor, [95, 99) Below
\* target, [99, 99.5) Good, [99.5, 100] Exceptional.
BandOfInterval(c) ==
    CHOOSE b \in BandLabels :
        \/ b = "Poor performance" /\ QGe(c, Q(0)) /\ QLt(c, Q(95))
        \/ b = "Below target" /\ QGe(c, Q(95)) /\ QLt(c, Q(99))
        \/ b = "Good performance" /\ QGe(c, Q(99)) /\ QLt(c, QDec(995, -1))
        \/ b = "Exceptional performance"
              /\ QGe(c, QDec(995, -1)) /\ QGe(Q(100), c)

\* C15: for every capture rate c in [0, 100], diagnose emits exactly one band
\* diagnostic, the one of the interval c lies in; the boundary values 95, 99
\* and 99.5 belong to the upper band.
C15_BandPartition ==
    (fn = "diagnose"
        /\ QGe(args[1].capture_rate, Q(0))
        /\ QGe(Q(100), args[1].capture_rate))
        => /\ ret.ok
           /\ Cardinality({i \in DOMAIN ret.val :
                              ret.val[i].label \in BandLabels}) = 1
           /\ \A i \in DOMAIN ret.val :
                 ret.val[i].label \in BandLabels
                     => ret.val[i].label = BandOfInterval(args[1].capture_rate)

\* A capture rate of exactly 95 is diagnosed as below target, not as poor.
C15_Witness ==
    /\ fn = "diagnose"
    /\ QEq(args[1].capture_rate, Q(95))
    /\ \E i \in DOMAIN ret.val : ret.val[i].label = "Below target"

\* The place of a label in the fixed rule order.
RuleRank(label) ==
    IF label = "Missed head votes" THEN 1
    ELSE IF label = "Missed source votes" THEN 2
    ELSE IF label = "Missed target votes" THEN 3
    ELSE IF label = "Missed sync committee duties" THEN 4
    ELSE IF label = "Missed block proposal" THEN 5
    ELSE IF label = "INACTIVITY LEAK PENALTY" THEN 6
    ELSE 7

\* The condition of the rule at a place of the rule order.
RuleHolds(rank, analysis) ==
    IF rank = 1 THEN analysis.missed.head.n > 0
    ELSE IF rank = 2 THEN analysis.missed.source.n > 0
    ELSE IF rank = 3 THEN analysis.missed.target.n > 0
    ELSE IF rank = 4 THEN analysis.missed.sync.n > 0
    ELSE IF rank = 5 THEN \/ analysis.missed.proposal_cl.n > 0
                          \/ analysis.missed.proposal_el.n > 0
    ELSE IF rank = 6 THEN analysis.penalties.inactivity_leak.n > 0
    ELSE TRUE

\* C16: the list diagnose returns is a subsequence of the fixed rule order
\* (missed head, source, target, sync, proposal, inactivity leak, band): the
\* places of its entries increase strictly, the entry of a rule is there
\* exactly when the rule's condition holds, and the band entry is the last,
\* after the missed-target and inactivity-leak entries.
C16_FixedRuleOrder ==
    fn = "diagnose"
        => /\ ret.ok
           /\ \A i, j \in DOMAIN ret.val :
                 i < j => RuleRank(ret.val[i].label) < RuleRank(ret.val[j].label)
           /\ \A rank \in 1..7 :
                 (\E i \in DOMAIN ret.val : RuleRank(ret.val[i].label) = rank)
                     <=> RuleHolds(rank, args[1])
           /\ Len(ret.val) >= 1
           /\ ret.val[Len(ret.val)].label \in BandLabels

\* A missed target vote and an inactivity leak are both diagnosed, in that
\* order, before the band.
C16_Witness ==
    /\ fn = "diagnose"
    /\ Len(ret.val) = 3
    /\ ret.val[1].label = "Missed target votes"
    /\ ret.val[2].label = "INACTIVITY LEAK PENALTY"
    /\ ret.val[3].label \in BandLabels

(***************************************************************************)
(* The unit converter's claims.                                            *)
(***************************************************************************)
HeuristicCopies ==
    {"calc_apr.wei_to_eth", "format_network.wei_to_eth",
     "format_aggregate.wei_to_eth"}

WeiToEthCopies ==
    HeuristicCopies
        \cup {"analyze_missed.wei_to_eth", "format_rewards.wei_to_eth",
              "format_tax_export.wei_to_eth", "format_balances.wei_to_eth",
              "format_validators.wei_to_eth"}

\* C17: for a native numeric input v the heuristic converter returns v
\* unchanged when v < 10^15 and v / 10^18 when v >= 10^15, so that v = 10^15
\* itself is converted as a raw base-unit amount.
C17_ThresholdInclusive ==
    (fn \in HeuristicCopies /\ args[1].t = "num")
        => /\ ret.ok
           /\ QLt(args[1].v, QDec(1, 15)) => QEq(ret.val, args[1].v)
           /\ QGe(args[1].v, QDec(1, 15))
                 => QEq(ret.val, QDiv(args[1].v, QDec(1, 18)))

\* The part of C17 that holds: away from v = 10^15 the three copies do as the
\* claim says.
C17_HoldsOffBoundary ==
    (fn \in HeuristicCopies /\ args[1].t = "num"
        /\ ~QEq(args[1].v, QDec(1, 15)))
        => /\ ret.ok
           /\ QLt(args[1].v, QDec(1, 15)) => QEq(ret.val, args[1].v)
           /\ QGt(args[1].v, QDec(1, 15))
                 => QEq(ret.val, QDiv(args[1].v, QDec(1, 18)))

\* A decimal integer as a string: blanks, then an optional sign, then digits
\* with single underscores allowed between two digits, then blanks.
IsBase10Integer(cs) ==
    \E a \in 1 .. Len(cs), b \in 1 .. Len(cs) :
        LET first == IF cs[a] \in {"-", "+"} THEN a + 1 ELSE a
        IN /\ \A i \in 1 .. (a - 1) : cs[i] = " "
           /\ \A i \in (b + 1) .. Len(cs) : cs[i] = " "
           /\ first <= b
           /\ IsDigit(cs[first])
           /\ IsDigit(cs[b])
           /\ \A i \in first .. b : IsDigit(cs[i]) \/ cs[i] = "_"
           /\ \A i \in first .. (b - 1) : ~(cs[i] = "_" /\ cs[i + 1] = "_")

\* C18: every copy of wei_to_eth, given a string that is not a decimal
\* integer, raises an error (ValueError) and returns no value, 0 or other.
C18_MalformedStringRaises ==
    (fn \in WeiToEthCopies /\ args[1].t = "str"
        /\ ~IsBase10Integer(args[1].s))
        => (~ret.ok /\ ret.err = "ValueError")

\* The amount "0.5" given to a copy that scales native numbers is refused.
C18_Witness ==
    /\ fn = "format_aggregate.wei_to_eth"
    /\ args[1] = JStr(<<"0", ".", "5">>)
    /\ ~ret.ok
    /\ ret.err = "ValueError"

(***************************************************************************)
(* The reward decomposer's claims on absent fields and on proposals.       *)
(***************************************************************************)
\* The sub-fields a record may lack: the earned, missed and penalty amounts
\* of the attestation votes and of the sync committee, the proposal's
\* execution-layer and inclusion rewards, the inactivity-leak penalty.
OptionalSubPaths ==
    {<<"attestation", v, k>> : v \in {"head", "source", "target"},
                               k \in {"reward", "missed_reward", "penalty"}}
        \cup {<<"sync_committee", k>> :
                 k \in {"reward", "missed_reward", "penalty"}}
        \cup {<<"proposal", "execution_layer_reward">>,
              <<"proposal", "attestation_inclusion_reward">>,
              <<"attestation", "inactivity_leak_penalty">>}

\* Every amount the record carries is a decimal integer.
AmountsWellFormed(entry) ==
    \A p \in DOMAIN entry :
        entry[p].t = "str" => IsBase10Integer(entry[p].s)

\* The values a decomposition shows for a sub-field (none when it does not
\* show the field).
ShownFor(name, v, p) ==
    IF name = "analyze_entry"
    THEN CASE p = <<"attestation", "head", "missed_reward">> -> <<v.missed.head>>
           [] p = <<"attestation", "source", "missed_reward">> -> <<v.missed.source>>
           [] p = <<"attestation", "target", "missed_reward">> -> <<v.missed.target>>
           [] p = <<"sync_committee", "missed_reward">> -> <<v.missed.sync>>
           [] p = <<"attestation", "head", "penalty">> -> <<v.penalties.head>>
           [] p = <<"attestation", "source", "penalty">> -> <<v.penalties.source>>
           [] p = <<"attestation", "target", "penalty">> -> <<v.penalties.target>>
           [] p = <<"sync_committee", "penalty">> -> <<v.penalties.sync>>
           [] p = <<"attestation", "inactivity_leak_penalty">>
                 -> <<v.penalties.inactivity_leak>>
           [] OTHER -> <<>>
    ELSE CASE p = <<"attestation", "head", "reward">> -> <<v.att_head>>
           [] p = <<"attestation", "source", "reward">> -> <<v.att_source>>
           [] p = <<"attestation", "target", "reward">> -> <<v.att_target>>
           [] p = <<"sync_committee", "reward">> -> <<v.sync_reward>>
           [] p = <<"sync_committee", "penalty">> -> <<v.sync_penalty>>
           [] p = <<"proposal", "execution_layer_reward">> -> <<v.prop_el>>
           [] p = <<"proposal", "attestation_inclusion_reward">>
                 -> <<v.prop_att_incl>>
           [] OTHER -> <<>>

AbsentOptionalResolveToZero(name) ==
    (fn = name
        /\ AmountsWellFormed(args[1])
        /\ (AllPaths \ DOMAIN args[1]) \subseteq OptionalSubPaths)
        => /\ ret.ok
           /\ \A p \in AllPaths \ DOMAIN args[1] :
                 \A i \in DOMAIN ShownFor(name, ret.val, p) :
                     QIsZero(ShownFor(name, ret.val, p)[i])

\* C19: for a record with a validator index and the top-level totals, an
\* absent optional sub-field resolves to zero and the decomposition succeeds,
\* in analyze_entry and in format_reward_entry.
C19_AbsentOptionalDefaultsToZero ==
    /\ AbsentOptionalResolveToZero("analyze_entry")
    /\ AbsentOptionalResolveToZero("format_reward_entry")

\* The part of C19 that holds: analyze_entry.
C19_HoldsForAnalyzeEntry == AbsentOptionalResolveToZero("analyze_entry")

\* The part of C19 that holds of format_reward_entry: the two proposal
\* rewards it reads with a default.
C19_HoldsForProposalDefaults ==
    (fn = "format_reward_entry"
        /\ AmountsWellFormed(args[1])
        /\ (AllPaths \ DOMAIN args[1])
               \subseteq {<<"proposal", "execution_layer_reward">>,
                          <<"proposal", "attestation_inclusion_reward">>})
        => /\ ret.ok
           /\ \A p \in AllPaths \ DOMAIN args[1] :
                 \A i \in DOMAIN ShownFor(fn, ret.val, p) :
                     QIsZero(ShownFor(fn, ret.val, p)[i])

ProposalSites ==
    {"calc_apr.main", "format_rewards.main", "format_tax_export.main"}

\* The proposal amounts a site reports for a record.
ProposalClOf(name, v) ==
    IF name = "format_tax_export.main" THEN v.proposal_cl_eth
    ELSE v.proposal_cl

ProposalElOf(name, v) ==
    IF name = "format_tax_export.main" THEN v.proposal_el_eth
    ELSE v.el_reward

\* The record's proposal total and execution-layer reward as the site
\* converts them.
ConvertedBy(name, x) ==
    IF name = "calc_apr.main" THEN wei_to_eth_calc_apr(x).val
    ELSE IF name = "format_rewards.main" THEN wei_to_eth_format_rewards(x).val
    ELSE wei_to_eth_tax_export(x).val

\* C20: at each site that reports a consensus-layer proposal amount
\* (calc_apr's, format_rewards' and format_tax_export's main) the amount is
\* the proposal total less the execution-layer reward, the latter 0 when the
\* record has none; so the two proposal amounts add up to the proposal total.
C20_ProposalClBySubtraction ==
    (fn \in ProposalSites /\ ret.ok)
        => LET entry == args[1]
               total == ConvertedBy(fn, entry[<<"proposal", "total">>])
               el == IF <<"proposal", "execution_layer_reward">> \in DOMAIN entry
                     THEN ConvertedBy(
                              fn, entry[<<"proposal", "execution_layer_reward">>])
                     ELSE Q(0)
           IN /\ QEq(ProposalElOf(fn, ret.val), el)
              /\ QEq(QAdd(ProposalClOf(fn, ret.val), el), total)
              /\ QEq(QAdd(ProposalClOf(fn, ret.val), ProposalElOf(fn, ret.val)),
                     total)

\* A proposal of 0.002 ETH of which 0.001 ETH is the execution-layer reward
\* is reported by calc_apr with a consensus-layer part of 0.001 ETH.
C20_Witness ==
    /\ fn = "calc_apr.main"
    /\ ret.ok
    /\ args[1][<<"proposal", "total">>] = JStr(WeiStr(2))
    /\ <<"proposal", "execution_layer_reward">> \in DOMAIN args[1]
    /\ args[1][<<"proposal", "execution_layer_reward">>] = JStr(WeiStr(1))
    /\ QEq(ret.val.proposal_cl, QDec(1, -3))
    /\ QEq(ret.val.el_reward, QDec(1, -3))

(***************************************************************************)
(* The claims on records without a validator index and on batches.         *)
(***************************************************************************)
LacksIndex(entry) == <<"validator", "index">> \notin DOMAIN entry

\* C21: a record whose validator index is absent is rejected with an error;
\* no report puts a default (0, "?") in the index's place and processes the
\* record as a valid one.
C21_MissingIndexRejected ==
    /\ (fn \in {"analyze_entry", "format_reward_entry", "calc_apr.main",
                "format_rewards.main", "format_tax_export.main"}
           /\ LacksIndex(args[1]))
          => ~ret.ok
    /\ (fn \in {"calc_apr.batch", "analyze_missed.batch",
                "format_rewards.batch", "format_tax_export.batch"}
           /\ \E i \in DOMAIN args[1] : LacksIndex(args[1][i]))
          => ~ret.ok
    /\ (fn = "format_balances.batch"
           /\ \E i \in DOMAIN args[1] :
                 /\ LacksIndex(args[1][i])
                 /\ <<"validator_index">> \notin DOMAIN args[1][i])
          => ~ret.ok

\* The part of C21 that holds: analyze_entry, format_reward_entry and the
\* mains of format_rewards and of format_tax_export end with an exception.
C21_HoldsWhereSubscripted ==
    /\ (fn \in {"analyze_entry", "format_reward_entry",
                "format_rewards.main", "format_tax_export.main"}
           /\ LacksIndex(args[1]))
          => ~ret.ok
    /\ (fn \in {"analyze_missed.batch", "format_rewards.batch",
                "format_tax_export.batch"}
           /\ \E i \in DOMAIN args[1] : LacksIndex(args[1][i]))
          => ~ret.ok

BatchMains ==
    {"analyze_missed.batch", "format_rewards.batch", "format_tax_export.batch"}

\* The number of well-formed records of a batch.
GoodCount(entries) ==
    Cardinality({i \in DOMAIN entries : entries[i] \in GoodRecords})

\* C22: in a batch processed in order, a malformed record (a required field
\* absent, a malformed numeric string) is reported and skipped, and every
\* other record, those after it included, is still processed: the run is
\* never aborted by one bad record.
C22_BadRecordSkipped ==
    fn \in BatchMains
        => /\ ret.ok
           /\ Len(ret.val.printed) >= GoodCount(args[1])

\* The part of C22 that holds: a batch without a bad record is processed
\* whole, and a run that is aborted has reported at most the records before
\* the first bad one.
C22_HoldsWithoutBadRecord ==
    fn \in BatchMains
        => /\ GoodCount(args[1]) = Len(args[1])
                 => (ret.ok /\ Len(ret.val.printed) = Len(args[1]))
           /\ ~ret.ok
                 => /\ Len(ret.printed) < Len(args[1])
                    /\ args[1][Len(ret.printed) + 1] \in BadRecords
                       \/ fn = "format_tax_export.batch"

(***************************************************************************)
(* The claim on the alternate names of the active-validator count.         *)
(***************************************************************************)
\* The value of the first of the names that the record carries.
RECURSIVE FirstPresent(_, _, _)
FirstPresent(data, names, i) ==
    IF names[i] \in DOMAIN data THEN data[names[i]]
    ELSE FirstPresent(data, names, i + 1)

CarriesOneOf(data, names) == \E i \in DOMAIN names : names[i] \in DOMAIN data

\* C23: the active-validator count is the value of the first candidate name
\* the record carries, in the order active_validators, validatorscount, then
\* the further alternates, also when that value is 0; and format_queues and
\* format_network resolve the same count for a record that carries the count
\* under those two names only.
C23_FirstPresentName ==
    /\ (fn = "format_queues.main"
           /\ CarriesOneOf(args[1],
                           <<"active_validators", "validatorscount", "active">>))
          => ret.val.active
                 = FirstPresent(args[1], <<"active_validators",
                                           "validatorscount", "active">>, 1)
    /\ (fn = "format_network.main"
           /\ CarriesOneOf(args[1], <<"active_validators", "validatorscount">>))
          => ret.val.active
                 = FirstPresent(args[1],
                                <<"active_validators", "validatorscount">>, 1)
    /\ (fn \in {"format_queues.main", "format_network.main"}
           /\ "active" \notin DOMAIN args[1]
           /\ CarriesOneOf(args[1], <<"active_validators", "validatorscount">>))
          => format_queues_main(args[1]).val.active
                 = format_network_main(args[1]).val.active

\* The part of C23 that holds: format_network takes the first name present,
\* format_queues the first name present with a non-zero count, and the two
\* agree when no count of the record is 0.
C23_HoldsForNonZeroCounts ==
    /\ (fn = "format_network.main"
           /\ CarriesOneOf(args[1], <<"active_validators", "validatorscount">>))
          => ret.val.active
                 = FirstPresent(args[1],
                                <<"active_validators", "validatorscount">>, 1)
    /\ (fn \in {"format_queues.main", "format_network.main"}
           /\ "active" \notin DOMAIN args[1]
           /\ CarriesOneOf(args[1], <<"active_validators", "validatorscount">>)
           /\ \A k \in {"active_validators", "validatorscount"} :
                 k \in DOMAIN args[1] => args[1][k] # 0)
          => /\ format_queues_main(args[1]).val.active
                   = format_network_main(args[1]).val.active
             /\ format_queues_main(args[1]).val.active
                   = FirstPresent(args[1], <<"active_validators",
                                             "validatorscount">>, 1)

(***************************************************************************)
(* The claim on the aggregate capture rate.                                *)
(***************************************************************************)
\* The sums of the earned, missed and penalty amounts of the reports from
\* report i on.
RECURSIVE SumsOf(_, _)
SumsOf(printed, i) ==
    IF i > Len(printed)
    THEN [earned |-> Q(0), missed |-> Q(0), penalty |-> Q(0)]
    ELSE LET rest == SumsOf(printed, i + 1)
             a == printed[i].analysis
         IN [earned |-> QAdd(a.total_reward, rest.earned),
             missed |-> QAdd(a.total_missed, rest.missed),
             penalty |-> QAdd(a.total_penalty, rest.penalty)]

\* earned / (earned + missed + penalty) * 100 for a non-zero denominator.
RateOf(sums) ==
    QMul(QDiv(sums.earned,
              QAdd(QAdd(sums.earned, sums.missed), sums.penalty)),
         Q(100))

SameAmounts(printed) ==
    \A i, j \in DOMAIN printed :
        /\ QEq(printed[i].analysis.total_reward, printed[j].analysis.total_reward)
        /\ QEq(printed[i].analysis.total_missed, printed[j].analysis.total_missed)
        /\ QEq(printed[i].analysis.total_penalty,
               printed[j].analysis.total_penalty)

\* C24: for a batch of more than one record the aggregate capture rate of
\* analyze_missed is sum(earned) / (sum(earned) + sum(missed) + sum(penalty))
\* * 100, the per-validator rate's denominator; when every record has the
\* same amounts the aggregate rate is the per-validator rate.
C24_AggregateCaptureRate ==
    (fn = "analyze_missed.batch" /\ ret.ok /\ Len(args[1]) > 1)
        => /\ QEq(ret.val.aggregate[1].capture_rate,
                  RateOf(SumsOf(ret.val.printed, 1)))
           /\ SameAmounts(ret.val.printed)
                 => QEq(ret.val.aggregate[1].capture_rate,
                        ret.val.printed[1].analysis.capture_rate)

\* The part of C24 that holds: batches whose records carry no penalty.
C24_HoldsWithoutPenalties ==
    (fn = "analyze_missed.batch" /\ ret.ok /\ Len(args[1]) > 1
        /\ QIsZero(SumsOf(ret.val.printed, 1).penalty))
        => /\ QEq(ret.val.aggregate[1].capture_rate,
                  RateOf(SumsOf(ret.val.printed, 1)))
           /\ SameAmounts(ret.val.printed)
                 => QEq(ret.val.aggregate[1].capture_rate,
                        ret.val.printed[1].analysis.capture_rate)

(***************************************************************************)
(* The claim on the copies of wei_to_eth.                                  *)
(***************************************************************************)
\* What each of the eight copies returns for x.
CopyResults(x) ==
    {wei_to_eth(x), wei_to_eth_format_rewards(x), wei_to_eth_tax_export(x),
     wei_to_eth_balances(x), wei_to_eth_validators(x), wei_to_eth_calc_apr(x),
     wei_to_eth_network(x), wei_to_eth_aggregate(x)}

SameResult(a, b) ==
    /\ a.ok = b.ok
    /\ a.ok => QEq(a.val, b.val)
    /\ ~a.ok => a.err = b.err

\* C25: every copy of wei_to_eth returns the same value for the same input:
\* a decimal string is divided by 10^18, and a native number is left
\* unchanged below 10^15 and divided by 10^18 above it, in all eight copies.
C25_CopiesAgree ==
    fn \in WeiToEthCopies
        => /\ \A r \in CopyResults(args[1]) : SameResult(ret, r)
           /\ (args[1].t = "str" /\ IsBase10Integer(args[1].s))
                 => /\ ret.ok
                    /\ QEq(ret.val,
                           QDiv(IntOfStr(args[1].s).val, QDec(1, 18)))
           /\ (args[1].t = "num" /\ QLt(args[1].v, QDec(1, 15)))
                 => (ret.ok /\ QEq(ret.val, args[1].v))
           /\ (args[1].t = "num" /\ QGt(args[1].v, QDec(1, 15)))
                 => (ret.ok /\ QEq(ret.val, QDiv(args[1].v, QDec(1, 18))))

\* The part of C25 that holds: on strings the eight copies agree, and a
\* decimal integer is divided by 10^18.
C25_HoldsForStrings ==
    (fn \in WeiToEthCopies /\ args[1].t = "str")
        => /\ \A r \in CopyResults(args[1]) : SameResult(ret, r)
           /\ IsBase10Integer(args[1].s)
                 => /\ ret.ok
                    /\ QEq(ret.val,
                           QDiv(IntOfStr(args[1].s).val, QDec(1, 18)))

\* The three copies that test for a native number agree on every input.
C25_HoldsAmongHeuristicCopies ==
    fn \in HeuristicCopies
        => \A r \in {wei_to_eth_calc_apr(args[1]), wei_to_eth_network(args[1]),
                     wei_to_eth_aggregate(args[1])} : SameResult(ret, r)

(***************************************************************************)
(* The claims on calc_apr.py main.                                         *)
(***************************************************************************)
\* C26: in calc_apr's main, for at least one entry, the period length given
\* to calc_apr is at least 1, and when the input carries an epoch range with
\* 0 <= start <= end the period length is end - start + 1, whatever the
\* number of entries.
C26_PeriodFromRange ==
    (fn = "calc_apr.batch" /\ Len(args[1]) >= 1 /\ ret.ok)
        => /\ ret.val.num_epochs >= 1
           /\ (args[2] # <<>> /\ 0 <= args[2][1] /\ args[2][1] <= args[2][2])
                 => ret.val.num_epochs = args[2][2] - args[2][1] + 1

\* The part of C26 that holds: the period is at least 1, and a range whose
\* start is 1 or more gives end - start + 1.
C26_HoldsForNonZeroStart ==
    (fn = "calc_apr.batch" /\ Len(args[1]) >= 1 /\ ret.ok)
        => /\ ret.val.num_epochs >= 1
           /\ (args[2] # <<>> /\ 1 <= args[2][1] /\ args[2][1] <= args[2][2])
                 => ret.val.num_epochs = args[2][2] - args[2][1] + 1

\* The validator indices the loop sees: a record without one reads as 0.
IndicesSeen(entries) ==
    {IF Has(entries[i], <<"validator", "index">>)
     THEN entries[i][<<"validator", "index">>] ELSE JNum(Q(0)) :
        i \in DOMAIN entries}

\* The sum of the records' total_reward amounts, in ETH, from record i on.
RECURSIVE RewardSum(_, _)
RewardSum(entries, i) ==
    IF i > Len(entries) THEN Q(0)
    ELSE QAdd(QDiv(IntOfStr(entries[i][<<"total_reward">>].s).val, QDec(1, 18)),
              RewardSum(entries, i + 1))

\* The records with records k and k + 1 exchanged.  Every order of a batch
\* is reached by such exchanges, and every batch they lead through is an
\* input of CalcAprMain.
Exchanged(entries, k) ==
    [i \in DOMAIN entries |->
        IF i = k THEN entries[k + 1]
        ELSE IF i = k + 1 THEN entries[k] ELSE entries[i]]

\* C27: in calc_apr's main the baseline stake is the number of distinct
\* validator indices seen times the stake; further records of a validator
\* add their rewards to the total and count once in the stake; the number
\* of validators and the baseline stake are the same for every order of the
\* records.
C27_StakeCountsDistinctValidators ==
    (fn = "calc_apr.batch" /\ Len(args[1]) >= 1 /\ ret.ok)
        => /\ ret.val.num_validators = Cardinality(IndicesSeen(args[1]))
           /\ QEq(ret.val.assumed_balance,
                  QMul(Q(Cardinality(IndicesSeen(args[1]))), args[3]))
           /\ QEq(ret.val.total_reward, RewardSum(args[1], 1))
           /\ \A k \in 1 .. (Len(args[1]) - 1) :
                 LET other == calc_apr_main(Exchanged(args[1], k),
                                            args[2], args[3])
                 IN /\ other.ok
                    /\ other.val.num_validators = ret.val.num_validators
                    /\ QEq(other.val.assumed_balance, ret.val.assumed_balance)
                    /\ QEq(other.val.total_reward, ret.val.total_reward)

\* Two records of validator 1, with rewards of 0.002 and 0.001 ETH, at the
\* default stake: one validator, a baseline of 32 ETH, 0.003 ETH earned.
C27_Witness ==
    /\ fn = "calc_apr.batch"
    /\ Len(args[1]) = 2
    /\ IndicesSeen(args[1]) = {JNum(Q(1))}
    /\ args[1][1][<<"total_reward">>] = JStr(WeiStr(2))
    /\ args[1][2][<<"total_reward">>] = JStr(WeiStr(1))
    /\ args[3] = Q(DefaultStake)
    /\ ret.ok
    /\ ret.val.num_validators = 1
    /\ QEq(ret.val.assumed_balance, Q(32))
    /\ QEq(ret.val.total_reward, QDec(3, -3))

====
